---- MODULE Spec2Model ----
(***************************************************************************)
(* Mellow Labs dashboard: the server Resource Store (server.js: upsert,    *)
(* list, remove, clear, buildCsv, sanitizeCSV over three SQLite tables)    *)
(* and the Tiered Client Facade (shared_api.js: API.init and the CRUD      *)
(* calls over server / bundled db.json / localStorage).                    *)
(*                                                                         *)
(* Four specifications share the variables:                                *)
(*   SpecStore      the server store under upsert / remove / clear / list  *)
(*   SpecNormalize  one upsert of a payload of any JSON type               *)
(*   SpecCsv        sanitizeCSV and the CSV row of buildCsv on bounded text*)
(*   SpecFacade     the facade over page loads (sessions) of one browser   *)
(***************************************************************************)
EXTENDS Integers, Sequences, FiniteSets, TLC

VARIABLES
  tables,      \* server: kind -> set of stored rows (the three SQLite tables)
  clock,       \* server: CURRENT_TIMESTAMP, in whole seconds
  nops,        \* server: number of mutating calls made so far
  last,        \* server: the call made last  [op, kind, arg, gen]
  result,      \* server: what that call returned  [ok, status, val]
  reqs,        \* server: the write requests in flight, per request
               \*   [pc, method, kind, body, seq, status]
  csvFields,   \* csv: the field values of one row, as csvRow gives them
  csvLine,     \* csv: the emitted row text
  csvPc,       \* csv: "idle" | "input" | "emitted"
  bundled,     \* facade env: db.json as served (kind -> list of records), fixed
  storage,     \* facade env: localStorage (kind -> [present, list]), kept over page loads
  session,     \* facade env: number of page loads so far
  calls,       \* facade env: number of calls that wrote the mirror so far
  ipc,         \* facade: position of API.init
  toTry,       \* facade: basesToTry not yet asked
  net,         \* facade env: the init requests of this session, in order
               \*   [req ("ping" | "db"), at (the base asked), ok]
  available,   \* facade: API.available
  base,        \* facade: API.base
  mode,        \* facade: API.mode
  local,       \* facade: API.local, the in-memory mirror (kind -> list)
  initRet,     \* facade: what init returned ("none" while it has not)
  tier,        \* facade: the branch init returned from
  flast,       \* facade: the call made last
  fresult,     \* facade: what it returned
  endMirror    \* facade: [set, m], the mirror a bundled-tier session ended with

storeVars  == <<tables, clock, nops, last, result, reqs>>
csvVars    == <<csvFields, csvLine, csvPc>>
facadeVars == <<bundled, storage, session, calls, ipc, toTry, net,
                available, base, mode, local, initRet, tier, flast, fresult,
                endMirror>>
vars == <<storeVars, csvVars, facadeVars>>

Kinds == <<"income", "expenses", "payroll">>
KindSet == {"income", "expenses", "payroll"}

(***************************************************************************)
(* Bounds of the model.                                                    *)
(***************************************************************************)
MaxOps == 3        \* mutating server calls in one run
MaxClock == 1      \* seconds that pass in one run
MaxLen == 2        \* characters in one CSV field value
MaxSessions == 2   \* page loads of one browser
MaxCalls == 2      \* facade calls that write the mirror, over all page loads

(***************************************************************************)
(* JavaScript / JSON values.  A value is a record [t, s, n]: t the type    *)
(* tag, s the text of a string, n the value of a number (1/0 for a         *)
(* boolean).  "undef" is also what reading an absent property gives.       *)
(***************************************************************************)
Undef   == [t |-> "undef", s |-> "", n |-> 0]
Null    == [t |-> "null",  s |-> "", n |-> 0]
NaN     == [t |-> "nan",   s |-> "", n |-> 0]
Inf     == [t |-> "inf",   s |-> "", n |-> 0]
Arr0    == [t |-> "arr",   s |-> "", n |-> 0]      \* the empty array []
Obj0    == [t |-> "obj",   s |-> "", n |-> 0]      \* the empty object {}
Str(x)  == [t |-> "str",   s |-> x,  n |-> 0]
Num(k)  == [t |-> "num",   s |-> "", n |-> k]
Bool(b) == [t |-> "bool",  s |-> "", n |-> IF b THEN 1 ELSE 0]

\* typeof v === 'number'
IsJsNumber(v) == v.t \in {"num", "nan", "inf"}
\* typeof v === 'string'
IsJsString(v) == v.t = "str"

\* JavaScript truthiness, as used by `x || y`
Truthy(v) ==
  CASE v.t \in {"undef", "null", "nan"} -> FALSE
    [] v.t = "str"  -> v.s # ""
    [] v.t = "num"  -> v.n # 0
    [] v.t = "bool" -> v.n = 1
    [] OTHER        -> TRUE

\* a || b
Or(a, b) == IF Truthy(a) THEN a ELSE b

\* Reading a property of a payload object: undefined when absent
Get(data, key) == IF key \in DOMAIN data THEN data[key] ELSE Undef

\* Number(string) on the strings of the model: "" and blank text are 0,
\* decimal text is its value, "Infinity" is Infinity, anything else is NaN
StrToNumber(x) ==
  CASE x = ""         -> Num(0)
    [] x = "0"        -> Num(0)
    [] x = "5"        -> Num(5)
    [] x = "12"       -> Num(12)
    [] x = "5.0"      -> Num(5)
    [] x = "Infinity" -> Inf
    [] OTHER          -> NaN

\* Number(v)
JsNumber(v) ==
  CASE v.t = "undef" -> NaN
    [] v.t = "null"  -> Num(0)
    [] v.t = "bool"  -> Num(v.n)
    [] v.t = "str"   -> StrToNumber(v.s)
    [] v.t = "arr"   -> Num(0)        \* Number([]) is Number("")
    [] v.t = "obj"   -> NaN           \* Number({}) is Number("[object Object]")
    [] OTHER         -> v             \* a number, NaN or Infinity already

\* String(number) on the numbers of the model
NumToString(k) ==
  CASE k = 0  -> "0"
    [] k = 1  -> "1"
    [] k = 5  -> "5"
    [] k = 7  -> "7"
    [] k = 9  -> "9"
    [] k = 12 -> "12"
    [] OTHER  -> "?"

\* String(v)
JsString(v) ==
  CASE v.t = "str"   -> v.s
    [] v.t = "num"   -> NumToString(v.n)
    [] v.t = "bool"  -> IF v.n = 1 THEN "true" ELSE "false"
    [] v.t = "undef" -> "undefined"
    [] v.t = "null"  -> "null"
    [] v.t = "nan"   -> "NaN"
    [] v.t = "inf"   -> "Infinity"
    [] v.t = "arr"   -> ""
    [] OTHER         -> "[object Object]"

(***************************************************************************)
(* better-sqlite3 / SQLite.  A stored value is Null, Str(text), Num(real)  *)
(* or Inf.                                                                 *)
(***************************************************************************)
\* Statement.run(row) binds numbers, strings and null; booleans, arrays and
\* objects make it throw a TypeError
Bindable(v) == v.t \notin {"bool", "arr", "obj"}

\* The bound value: sqlite3_bind_double stores NaN as NULL
BindValue(v) == IF v.t \in {"undef", "null", "nan"} THEN Null ELSE v

\* The text SQLite renders a REAL as
RealText(k) ==
  CASE k = 0  -> "0.0"
    [] k = 1  -> "1.0"
    [] k = 5  -> "5.0"
    [] k = 7  -> "7.0"
    [] k = 9  -> "9.0"
    [] k = 12 -> "12.0"
    [] OTHER  -> "?.0"

\* Text that is a well-formed numeric literal for SQLite's REAL affinity
LooksNumeric(x) == x \in {"0", "5", "12", "5.0"}

\* A column declared TEXT: a number is stored as its text
TextCol(v) ==
  CASE v.t = "num" -> Str(RealText(v.n))
    [] v.t = "inf" -> Str("Inf")
    [] OTHER       -> v

\* A column declared REAL: numeric-looking text is stored as the number
RealCol(v) ==
  IF v.t = "str" /\ LooksNumeric(v.s) THEN StrToNumber(v.s) ELSE v

(***************************************************************************)
(* Record Schema Registry: resources[kind].toRow / map / updatable.        *)
(***************************************************************************)
GenIds == {"g1", "g2"}   \* values generateId() may return in the runs of the model

\* generateId(): Math.random().toString(36).slice(2) + Date.now().toString(36);
\* the set of texts it may return.  It reads neither the table nor the payload.
generateId == GenIds

\* [mutant] the field without Number(): data.amount || 0
NumberOrZero_NoNumber(v) == Or(v, Num(0))

\* Number(data.amount || 0): the coercion of every numeric field, in toRow and map
NumberOrZero(v) == JsNumber(Or(v, Num(0)))

\* [mutant] the field as the payload or the row gives it
TextOrEmpty_Raw(v) == v

\* data.source || '': the coercion of every text field, in toRow and map
TextOrEmpty(v) == Or(v, Str(""))

\* resources[kind].toRow(data); g is what generateId() returns if it is called
toRow(kind, data, g) ==
  CASE kind = "income" ->
         [id        |-> Str(JsString(Or(Get(data, "id"), Str(g)))),
          date      |-> TextOrEmpty(Get(data, "date")),
          source    |-> TextOrEmpty(Get(data, "source")),
          processor |-> TextOrEmpty(Get(data, "processor")),
          amount    |-> NumberOrZero(Get(data, "amount")),
          fees      |-> NumberOrZero(Get(data, "fees")),
          notes     |-> TextOrEmpty(Get(data, "notes"))]
    [] kind = "expenses" ->
         [id           |-> Str(JsString(Or(Get(data, "id"), Str(g)))),
          date         |-> TextOrEmpty(Get(data, "date")),
          category     |-> TextOrEmpty(Get(data, "category")),
          seller       |-> TextOrEmpty(Get(data, "seller")),
          items        |-> TextOrEmpty(Get(data, "items")),
          order_number |-> Or(Get(data, "orderNumber"),
                              TextOrEmpty(Get(data, "order_number"))),
          total        |-> NumberOrZero(Get(data, "total")),
          notes        |-> TextOrEmpty(Get(data, "notes")),
          source       |-> TextOrEmpty(Get(data, "source"))]
    [] kind = "payroll" ->
         [id       |-> Str(JsString(Or(Get(data, "id"), Str(g)))),
          date     |-> TextOrEmpty(Get(data, "date")),
          employee |-> TextOrEmpty(Get(data, "employee")),
          amount   |-> NumberOrZero(Get(data, "amount")),
          notes    |-> TextOrEmpty(Get(data, "notes"))]

\* The columns of a kind that createDatabase declares REAL
RealCols(kind) ==
  CASE kind = "income"   -> {"amount", "fees"}
    [] kind = "expenses" -> {"total"}
    [] kind = "payroll"  -> {"amount"}

\* The columns of a kind that createDatabase declares NOT NULL
NotNullCols(kind) ==
  CASE kind = "income"   -> {"date"}
    [] kind = "expenses" -> {"date"}
    [] kind = "payroll"  -> {"date", "employee"}

\* One bound parameter as the column of the kind stores it
ColValue(kind, c, v) ==
  IF c \in RealCols(kind) THEN RealCol(BindValue(v)) ELSE TextCol(BindValue(v))

\* The values of the INSERT: @id, @date, ... after binding and column affinity
excluded(kind, row) ==
  CASE kind = "income" ->
         [id        |-> ColValue(kind, "id", row.id),
          date      |-> ColValue(kind, "date", row.date),
          source    |-> ColValue(kind, "source", row.source),
          processor |-> ColValue(kind, "processor", row.processor),
          amount    |-> ColValue(kind, "amount", row.amount),
          fees      |-> ColValue(kind, "fees", row.fees),
          notes     |-> ColValue(kind, "notes", row.notes)]
    [] kind = "expenses" ->
         [id           |-> ColValue(kind, "id", row.id),
          date         |-> ColValue(kind, "date", row.date),
          category     |-> ColValue(kind, "category", row.category),
          seller       |-> ColValue(kind, "seller", row.seller),
          items        |-> ColValue(kind, "items", row.items),
          order_number |-> ColValue(kind, "order_number", row.order_number),
          total        |-> ColValue(kind, "total", row.total),
          notes        |-> ColValue(kind, "notes", row.notes),
          source       |-> ColValue(kind, "source", row.source)]
    [] kind = "payroll" ->
         [id       |-> ColValue(kind, "id", row.id),
          date     |-> ColValue(kind, "date", row.date),
          employee |-> ColValue(kind, "employee", row.employee),
          amount   |-> ColValue(kind, "amount", row.amount),
          notes    |-> ColValue(kind, "notes", row.notes)]

\* A row inserted without conflict: created_at and updated_at take their
\* DEFAULT CURRENT_TIMESTAMP
inserted(kind, ex, now) ==
  CASE kind = "income" ->
         [id |-> ex.id, date |-> ex.date, source |-> ex.source,
          processor |-> ex.processor, amount |-> ex.amount, fees |-> ex.fees,
          notes |-> ex.notes, created_at |-> now, updated_at |-> now]
    [] kind = "expenses" ->
         [id |-> ex.id, date |-> ex.date, category |-> ex.category,
          seller |-> ex.seller, items |-> ex.items,
          order_number |-> ex.order_number, total |-> ex.total,
          notes |-> ex.notes, source |-> ex.source,
          created_at |-> now, updated_at |-> now]
    [] kind = "payroll" ->
         [id |-> ex.id, date |-> ex.date, employee |-> ex.employee,
          amount |-> ex.amount, notes |-> ex.notes,
          created_at |-> now, updated_at |-> now]

\* [mutant] an update list that leaves notes out: the old notes survive
updatable_KeepNotes(kind, old, ex, now) ==
  [inserted(kind, ex, now) EXCEPT !.created_at = old.created_at,
                                  !.notes = old.notes]

\* [mutant] an update without updated_at=CURRENT_TIMESTAMP
updatable_NoTouch(kind, old, ex, now) ==
  [inserted(kind, ex, now) EXCEPT !.created_at = old.created_at,
                                  !.updated_at = old.updated_at]

\* [mutant] INSERT OR REPLACE instead of ON CONFLICT DO UPDATE: the conflicting
\* row is replaced whole, so created_at is reset
updatable_Replace(kind, old, ex, now) == inserted(kind, ex, now)

\* ON CONFLICT(id) DO UPDATE SET <updatable>, updated_at=CURRENT_TIMESTAMP:
\* the stored row old after the conflicting insert of the values ex
updatable(kind, old, ex, now) ==
  CASE kind = "income" ->
         [old EXCEPT !.date = ex.date, !.source = ex.source,
                     !.processor = ex.processor, !.amount = ex.amount,
                     !.fees = ex.fees, !.notes = ex.notes,
                     !.updated_at = now]
    [] kind = "expenses" ->
         [old EXCEPT !.date = ex.date, !.category = ex.category,
                     !.seller = ex.seller, !.items = ex.items,
                     !.order_number = ex.order_number, !.total = ex.total,
                     !.notes = ex.notes, !.source = ex.source,
                     !.updated_at = now]
    [] kind = "payroll" ->
         [old EXCEPT !.date = ex.date, !.employee = ex.employee,
                     !.amount = ex.amount, !.notes = ex.notes,
                     !.updated_at = now]

\* [mutant] an INSERT without the ON CONFLICT clause and without the key
insert_Append(kind, T, row, now) ==
  IF \E c \in DOMAIN row : ~Bindable(row[c])
  THEN [ok |-> FALSE, table |-> T]
  ELSE [ok |-> TRUE, table |-> T \cup {inserted(kind, excluded(kind, row), now)}]

\* resource.insert.run(row) on the table T at time now: [ok, table].
\* ok is FALSE when run throws (a value that cannot be bound, or NOT NULL).
insert(kind, T, row, now) ==
  IF \E c \in DOMAIN row : ~Bindable(row[c])
  THEN [ok |-> FALSE, table |-> T]
  ELSE LET ex == excluded(kind, row) IN
       IF \E c \in NotNullCols(kind) : ex[c] = Null
       THEN [ok |-> FALSE, table |-> T]
       ELSE IF \E r \in T : r.id = ex.id
       THEN [ok |-> TRUE,
             table |-> {IF r.id = ex.id THEN updatable(kind, r, ex, now) ELSE r
                        : r \in T}]
       ELSE [ok |-> TRUE, table |-> T \cup {inserted(kind, ex, now)}]

\* resources[kind].map(row): the client-facing record of a stored row
map(kind, row) ==
  CASE kind = "income" ->
         [id        |-> row.id,
          date      |-> row.date,
          source    |-> TextOrEmpty(row.source),
          processor |-> TextOrEmpty(row.processor),
          amount    |-> NumberOrZero(row.amount),
          fees      |-> NumberOrZero(row.fees),
          notes     |-> TextOrEmpty(row.notes)]
    [] kind = "expenses" ->
         [id          |-> row.id,
          date        |-> row.date,
          category    |-> TextOrEmpty(row.category),
          seller      |-> TextOrEmpty(row.seller),
          items       |-> TextOrEmpty(row.items),
          orderNumber |-> TextOrEmpty(row.order_number),
          total       |-> NumberOrZero(row.total),
          notes       |-> TextOrEmpty(row.notes),
          source      |-> TextOrEmpty(row.source)]
    [] kind = "payroll" ->
         [id       |-> row.id,
          date     |-> row.date,
          employee |-> TextOrEmpty(row.employee),
          amount   |-> NumberOrZero(row.amount),
          notes    |-> TextOrEmpty(row.notes)]

(***************************************************************************)
(* Resource Store: upsert / list / remove / clear of server.js.            *)
(***************************************************************************)
\* The stored row with the id idv, as resource.selectOne.get(id) reads it
selectOne(T, idv) == CHOOSE r \in T : r.id = idv

\* upsert(kind, payload) on the table T at time now, generateId() giving g:
\* [ok, table, val]; ok is FALSE when the call throws
upsert(kind, T, payload, g, now) ==
  LET row == toRow(kind, payload, g)
      ins == insert(kind, T, row, now)
  IN  IF ~ins.ok
      THEN [ok |-> FALSE, table |-> T, val |-> Undef]
      ELSE [ok |-> TRUE, table |-> ins.table,
            val |-> map(kind, selectOne(ins.table, row.id))]

\* memcmp order of the texts that the date column holds in the model
TextRank(x) ==
  CASE x = ""           -> 0
    [] x = "12"         -> 1
    [] x = "2024-01-01" -> 2
    [] x = "2024-02-01" -> 3
    [] x = "2024-03-01" -> 4
    [] x = "5.0"        -> 5
    [] x = "Infinity"   -> 6
    [] x = "abc"        -> 7

\* [mutant] ORDER BY date DESC alone
OrderedBefore_DateOnly(r1, r2) == TextRank(r1.date.s) > TextRank(r2.date.s)

\* ORDER BY date DESC, updated_at DESC: r1 must come before r2
OrderedBefore(r1, r2) ==
  \/ TextRank(r1.date.s) > TextRank(r2.date.s)
  \/ r1.date = r2.date /\ r1.updated_at > r2.updated_at

\* resource.selectAll.all(): the orders in which the query may return the rows
\* (rows that tie on both keys come in either order)
selectAll(T) ==
  {s \in [1..Cardinality(T) -> T] :
     /\ \A i, j \in 1..Cardinality(T) : i # j => s[i] # s[j]
     /\ \A i, j \in 1..Cardinality(T) : i < j => ~OrderedBefore(s[j], s[i])}

\* list(kind): the lists it may return
list(kind, T) ==
  {[i \in 1..Cardinality(T) |-> map(kind, s[i])] : s \in selectAll(T)}

\* GET /api/<kind>/<id>: [found, val]; 404 when no row has the id
getOne(kind, T, id) ==
  IF \E r \in T : r.id = Str(id)
  THEN [found |-> TRUE, val |-> map(kind, selectOne(T, Str(id)))]
  ELSE [found |-> FALSE, val |-> Undef]

\* [mutant] a remove that reports success whatever it deleted
remove_AlwaysTrue(kind, T, id) ==
  [table |-> {r \in T : r.id # Str(id)}, val |-> TRUE]

\* remove(kind, id): [table, val], val = (changes > 0)
remove(kind, T, id) ==
  [table |-> {r \in T : r.id # Str(id)},
   val   |-> \E r \in T : r.id = Str(id)]

\* [mutant] a clear that deletes nothing
clear_None(kind, T) == T

\* clear(kind)
clear(kind, T) == {}

(***************************************************************************)
(* Inputs of the server runs.                                              *)
(***************************************************************************)
D1 == "2024-01-01"
D2 == "2024-02-01"
D3 == "2024-03-01"

\* Payloads of POST /api/income
IncomePayloads ==
  { [id |-> Str("a"), date |-> Str(D3), source |-> Str("shop"), amount |-> Num(5)],
    [id |-> Str("g1"), date |-> Str(D2), amount |-> Str("12")],
    [date |-> Str(D1), amount |-> Str("abc")] }

\* Payloads of POST /api/expenses
ExpensesPayloads ==
  { [id |-> Str("a"), date |-> Str(D1), orderNumber |-> Str("o1"), total |-> Num(5)],
    [id |-> Str("b"), date |-> Str(D2), order_number |-> Str("o2"),
     total |-> Str("abc")] }

\* Payloads of POST /api/payroll
PayrollPayloads ==
  { [id |-> Str("a"), date |-> Str(D1), employee |-> Str("ann"), amount |-> Num(5)],
    [id |-> Str("b"), date |-> Str(D1), amount |-> Str("abc")] }

Payloads(kind) ==
  CASE kind = "income"   -> IncomePayloads
    [] kind = "expenses" -> ExpensesPayloads
    [] kind = "payroll"  -> PayrollPayloads

\* Ids of DELETE /api/<kind>/<id>
RemoveIds(kind) == IF kind = "income" THEN {"a", "g1"} ELSE {"a"}

\* The JSON values a field of a payload takes in the normalization runs
JsonVals ==
  {Null, Str(""), Str("abc"), Str("12"), Str("Infinity"), Num(0), Num(5),
   Bool(TRUE), Bool(FALSE), Arr0, Obj0}

\* The keys that toRow of a kind reads
PayloadKeys(kind) ==
  CASE kind = "income" ->
         {"id", "date", "source", "processor", "amount", "fees", "notes"}
    [] kind = "expenses" ->
         {"id", "date", "category", "seller", "items", "orderNumber",
          "order_number", "total", "notes", "source"}
    [] kind = "payroll" ->
         {"id", "date", "employee", "amount", "notes"}

\* Payloads of the normalization runs: the empty object, the example
\* {date, amount: "abc"} without an id, and {id: "a", date} with one key
\* set to (or replaced by) each JSON value
RichPayloads(kind) ==
  {<<>>, [date |-> Str(D1), amount |-> Str("abc")]}
  \cup {(f :> v) @@ [id |-> Str("a"), date |-> Str(D1)] :
          f \in PayloadKeys(kind), v \in JsonVals}

\* The text fields of the client-facing record of a kind
TextFields(kind) ==
  CASE kind = "income"   -> {"source", "processor", "notes"}
    [] kind = "expenses" -> {"category", "seller", "items", "orderNumber",
                             "notes", "source"}
    [] kind = "payroll"  -> {"employee", "notes"}

\* The numeric fields of the client-facing record of a kind
NumericFields(kind) ==
  CASE kind = "income"   -> {"amount", "fees"}
    [] kind = "expenses" -> {"total"}
    [] kind = "payroll"  -> {"amount"}

(***************************************************************************)
(* The server as a state machine.                                          *)
(***************************************************************************)
NoCall == [op |-> "none", kind |-> "", arg |-> <<>>, gen |-> ""]
NoResult == [ok |-> TRUE, status |-> 0, val |-> <<>>]

StoreInit ==
  /\ tables = [k \in KindSet |-> {}]
  /\ clock = 0
  /\ nops = 0
  /\ last = NoCall
  /\ result = NoResult
  /\ reqs = <<>>

\* POST /api/<kind> with the parsed payload p
Upsert(kind, p) ==
  /\ nops < MaxOps
  /\ \E g \in generateId :
       LET u == upsert(kind, tables[kind], p, g, clock) IN
       /\ tables' = [tables EXCEPT ![kind] = u.table]
       /\ last' = [op |-> "upsert", kind |-> kind, arg |-> p,
                   gen |-> IF Truthy(Get(p, "id")) THEN "" ELSE g]
       /\ result' = [ok |-> u.ok, status |-> IF u.ok THEN 200 ELSE 500,
                     val |-> u.val]
  /\ nops' = nops + 1
  /\ UNCHANGED <<clock, reqs, csvVars, facadeVars>>

\* DELETE /api/<kind>/<id>
Remove(kind, id) ==
  /\ nops < MaxOps
  /\ LET r == remove(kind, tables[kind], id) IN
       /\ tables' = [tables EXCEPT ![kind] = r.table]
       /\ result' = [ok |-> TRUE, status |-> IF r.val THEN 200 ELSE 404,
                     val |-> r.val]
  /\ last' = [op |-> "remove", kind |-> kind, arg |-> id, gen |-> ""]
  /\ nops' = nops + 1
  /\ UNCHANGED <<clock, reqs, csvVars, facadeVars>>

\* DELETE /api/<kind>
Clear(kind) ==
  /\ nops < MaxOps
  /\ tables' = [tables EXCEPT ![kind] = clear(kind, tables[kind])]
  /\ result' = [ok |-> TRUE, status |-> 200, val |-> <<>>]
  /\ last' = [op |-> "clear", kind |-> kind, arg |-> <<>>, gen |-> ""]
  /\ nops' = nops + 1
  /\ UNCHANGED <<clock, reqs, csvVars, facadeVars>>

\* resources[kind].csvHeader
csvHeader(kind) ==
  CASE kind = "income" ->
         <<"Date", "Source", "Processor", "AmountGBP", "FeesGBP", "Notes">>
    [] kind = "expenses" ->
         <<"Date", "Category", "Seller", "Item(s)", "Order #", "TotalGBP",
           "Notes", "Source">>
    [] kind = "payroll" -> <<"Date", "Employee", "AmountGBP", "Notes">>

\* Number.prototype.toFixed(2) on the numbers of the model
toFixed2(v) ==
  CASE v.t = "inf" -> "Infinity"
    [] v.t = "nan" -> "NaN"
    [] v.n = 0     -> "0.00"
    [] v.n = 1     -> "1.00"
    [] v.n = 5     -> "5.00"
    [] v.n = 7     -> "7.00"
    [] v.n = 9     -> "9.00"
    [] v.n = 12    -> "12.00"

\* String(rec.x || ''): a text field of a data row
csvText(v) == JsString(TextOrEmpty(v))

\* resources[kind].csvRow(rec): the field texts of one data row.  The texts
\* of the store runs hold no quote, comma or newline, so sanitizeCSV gives
\* them back as they are
csvRow(kind, rec) ==
  CASE kind = "income" ->
         <<csvText(rec.date), csvText(rec.source), csvText(rec.processor),
           toFixed2(NumberOrZero(rec.amount)), toFixed2(NumberOrZero(rec.fees)),
           csvText(rec.notes)>>
    [] kind = "expenses" ->
         <<csvText(rec.date), csvText(rec.category), csvText(rec.seller),
           csvText(rec.items), csvText(rec.orderNumber),
           toFixed2(NumberOrZero(rec.total)), csvText(rec.notes),
           csvText(rec.source)>>
    [] kind = "payroll" ->
         <<csvText(rec.date), csvText(rec.employee),
           toFixed2(NumberOrZero(rec.amount)), csvText(rec.notes)>>

\* buildCsv(kind) on the list that list(kind) returned: the lines, each the
\* sequence of its fields
buildCsv(kind, rows) ==
  <<csvHeader(kind)>> \o [i \in 1..Len(rows) |-> csvRow(kind, rows[i])]

\* GET /api/<kind>.csv
GetCsv(kind) ==
  /\ \E l \in list(kind, tables[kind]) :
       result' = [ok |-> TRUE, status |-> 200, val |-> buildCsv(kind, l)]
  /\ last' = [op |-> "csv", kind |-> kind, arg |-> <<>>, gen |-> ""]
  /\ UNCHANGED <<tables, clock, nops, reqs, csvVars, facadeVars>>

\* GET /api/<kind>
List(kind) ==
  /\ \E l \in list(kind, tables[kind]) :
       result' = [ok |-> TRUE, status |-> 200, val |-> l]
  /\ last' = [op |-> "list", kind |-> kind, arg |-> <<>>, gen |-> ""]
  /\ UNCHANGED <<tables, clock, nops, reqs, csvVars, facadeVars>>

\* GET /api/<kind>/<id>
GetOne(kind, id) ==
  /\ LET r == getOne(kind, tables[kind], id) IN
       result' = [ok |-> r.found, status |-> IF r.found THEN 200 ELSE 404,
                  val |-> r.val]
  /\ last' = [op |-> "get", kind |-> kind, arg |-> id, gen |-> ""]
  /\ UNCHANGED <<tables, clock, nops, reqs, csvVars, facadeVars>>

\* A second passes.  Only the order of the timestamps is observable, so the
\* model lets time pass right after a call that wrote
Tick ==
  /\ clock < MaxClock
  /\ last.op \in {"upsert", "remove", "clear"}
  /\ clock' = clock + 1
  /\ last' = [op |-> "tick", kind |-> "", arg |-> <<>>, gen |-> ""]
  /\ result' = NoResult
  /\ UNCHANGED <<tables, nops, reqs, csvVars, facadeVars>>

CsvIdle ==
  /\ csvFields = <<>>
  /\ csvLine = <<>>
  /\ csvPc = "idle"

FacadeIdle ==
  /\ bundled = <<>>
  /\ storage = <<>>
  /\ session = 0
  /\ calls = 0
  /\ ipc = "idle"
  /\ toTry = <<>>
  /\ net = <<>>
  /\ available = FALSE
  /\ base = ""
  /\ mode = "server"
  /\ local = <<>>
  /\ initRet = "none"
  /\ tier = "none"
  /\ flast = <<>>
  /\ fresult = <<>>
  /\ endMirror = <<>>

StoreNext ==
  \/ \E kind \in KindSet : \E p \in Payloads(kind) : Upsert(kind, p)
  \/ \E kind \in KindSet : \E id \in RemoveIds(kind) : Remove(kind, id)
  \/ \E kind \in KindSet : Clear(kind)
  \/ \E kind \in KindSet : List(kind)
  \/ Tick

\* Request bodies of the handler runs, as texts
BodyB == "{\"id\":\"b\",\"date\":\"2024-01-01\",\"notes\":\"n\"}"
Bodies == {"", " ", "{bad", "null", "5", "[]", "{}", BodyB}

\* The body of a request that names the id a, which the tables may hold
BodyA == "{\"id\":\"a\",\"notes\":\"m\"}"

\* The bodies of two requests that write the id n, which no table holds
BodyN1 == "{\"id\":\"n\",\"date\":\"2024-01-01\",\"notes\":\"x\"}"
BodyN2 == "{\"id\":\"n\",\"date\":\"2024-02-01\",\"amount\":5}"

\* JSON.parse(text) on the texts of the model: [ok, t, o]; ok is FALSE when
\* it throws, t is the type of the value, o the object's properties
JSONparse(text) ==
  CASE text = "null"  -> [ok |-> TRUE, t |-> "null", o |-> <<>>]
    [] text = "5"     -> [ok |-> TRUE, t |-> "number", o |-> <<>>]
    [] text = "[]"    -> [ok |-> TRUE, t |-> "array", o |-> <<>>]
    [] text = "{}"    -> [ok |-> TRUE, t |-> "object", o |-> <<>>]
    [] text = BodyB   -> [ok |-> TRUE, t |-> "object",
                          o |-> [id |-> Str("b"), date |-> Str(D1),
                                 notes |-> Str("n")]]
    [] text = BodyA   -> [ok |-> TRUE, t |-> "object",
                          o |-> [id |-> Str("a"), notes |-> Str("m")]]
    [] text = BodyN1  -> [ok |-> TRUE, t |-> "object",
                          o |-> [id |-> Str("n"), date |-> Str(D1),
                                 notes |-> Str("x")]]
    [] text = BodyN2  -> [ok |-> TRUE, t |-> "object",
                          o |-> [id |-> Str("n"), date |-> Str(D2),
                                 amount |-> Num(5)]]
    [] OTHER          -> [ok |-> FALSE, t |-> "none", o |-> <<>>]

\* The bodies and the path ids of the PUT requests
PutBodies == Bodies \cup {BodyA}
PutIds == {"a", "zz"}

\* [mutant] a handler that takes {} for a body that does not parse
payloadOf_Lenient(body) ==
  IF JSONparse(body).ok THEN JSONparse(body) ELSE JSONparse("{}")

\* JSON.parse(body || '{}')
payloadOf(body) == JSONparse(IF body = "" THEN "{}" ELSE body)

\* The properties toRow reads from a parsed payload: those of an object;
\* none for null (payload || {}), a number or an empty array
dataOf(pl) == IF pl.t = "object" THEN pl.o ELSE <<>>

\* payload.id = id in the PUT handler: [ok, data]; it throws on null, is
\* ignored on a number, and sets the property on an object or an array
withPathId(pl, id) ==
  CASE pl.t = "null"   -> [ok |-> FALSE, data |-> <<>>]
    [] pl.t = "number" -> [ok |-> TRUE, data |-> <<>>]
    [] OTHER           -> [ok |-> TRUE,
                           data |-> [k \in DOMAIN pl.o \cup {"id"} |->
                                       IF k = "id" THEN Str(id) ELSE pl.o[k]]]

\* The second segment of the request path, as sent
Segments == {"a", "zz", "a%20b", "%"}

\* decodeURIComponent(apiMatch[2]): [ok, id]; ok is FALSE when it throws
\* URIError, on a % that two hexadecimal digits do not follow
decodeURIComponent(seg) ==
  CASE seg = "%"     -> [ok |-> FALSE, id |-> ""]
    [] seg = "a%20b" -> [ok |-> TRUE, id |-> "a b"]
    [] OTHER         -> [ok |-> TRUE, id |-> seg]

\* sendError(res, status, message)
sendError(status) == [ok |-> FALSE, status |-> status, val |-> Undef]

\* POST /api/<kind> with the request body
Post(kind, body) ==
  LET pl == payloadOf(body) IN
  /\ ~pl.ok \/ nops = 0
  /\ IF ~pl.ok
     THEN /\ result' = sendError(400)
          /\ last' = [op |-> "post", kind |-> kind,
                      arg |-> [id |-> "", body |-> body], gen |-> ""]
          /\ UNCHANGED <<tables, nops>>
     ELSE \E g \in generateId :
            LET u == upsert(kind, tables[kind], dataOf(pl), g, clock) IN
            /\ tables' = [tables EXCEPT ![kind] = u.table]
            /\ result' = IF u.ok THEN [ok |-> TRUE, status |-> 200, val |-> u.val]
                         ELSE sendError(500)
            /\ last' = [op |-> "post", kind |-> kind,
                        arg |-> [id |-> "", body |-> body], gen |-> g]
            /\ nops' = nops + 1
  /\ UNCHANGED <<clock, reqs, csvVars, facadeVars>>

\* PUT /api/<kind>/<id> with the request body
Put(kind, id, body) ==
  LET pl == payloadOf(body) IN
  /\ ~pl.ok \/ nops = 0
  /\ IF ~pl.ok
     THEN /\ result' = sendError(400)
          /\ last' = [op |-> "put", kind |-> kind,
                      arg |-> [id |-> id, body |-> body], gen |-> ""]
          /\ UNCHANGED <<tables, nops>>
     ELSE IF ~withPathId(pl, id).ok
     THEN /\ result' = sendError(500)
          /\ last' = [op |-> "put", kind |-> kind,
                      arg |-> [id |-> id, body |-> body], gen |-> ""]
          /\ nops' = nops + 1
          /\ UNCHANGED tables
     ELSE \E g \in generateId :
            LET u == upsert(kind, tables[kind], withPathId(pl, id).data, g, clock) IN
            /\ tables' = [tables EXCEPT ![kind] = u.table]
            /\ result' = IF u.ok THEN [ok |-> TRUE, status |-> 200, val |-> u.val]
                         ELSE sendError(500)
            /\ last' = [op |-> "put", kind |-> kind,
                        arg |-> [id |-> id, body |-> body], gen |-> g]
            /\ nops' = nops + 1
  /\ UNCHANGED <<clock, reqs, csvVars, facadeVars>>

\* PUT /api/<kind> without an id: no handler matches, the body is not read
PutNoId(kind, body) ==
  /\ result' = sendError(405)
  /\ last' = [op |-> "put405", kind |-> kind,
              arg |-> [id |-> "", body |-> body], gen |-> ""]
  /\ UNCHANGED <<tables, nops, clock, reqs, csvVars, facadeVars>>

\* The tables a normalization run starts from: empty, or each kind holding
\* the row "a" that the first payload of the kind created a second earlier
StoredA(kind) ==
  upsert(kind, {}, CHOOSE p \in Payloads(kind) : Get(p, "id") = Str("a"),
         "g1", 0).table

NormalizeInit ==
  /\ \/ tables = [k \in KindSet |-> {}] /\ clock = 0
     \/ tables = [k \in KindSet |-> StoredA(k)] /\ clock = 1
  /\ nops = 0
  /\ last = NoCall
  /\ result = NoResult
  /\ reqs = <<>>

\* The one upsert of a normalization run
Normalize(kind, p) == nops = 0 /\ Upsert(kind, p)

NormalizeNext ==
  \/ \E kind \in KindSet : \E p \in RichPayloads(kind) : Normalize(kind, p)
  \/ \E kind \in KindSet : List(kind)
  \/ \E kind \in KindSet : GetOne(kind, "a")
  \/ \E kind \in KindSet : GetCsv(kind)

\* The records that the last call returned
Returned ==
  IF last.op = "list" THEN {result.val[i] : i \in DOMAIN result.val}
  ELSE IF last.op \in {"upsert", "get"} /\ result.status = 200 THEN {result.val}
  ELSE {}

\* upsert(kind, rec) of a record exactly as the last call returned it
Resubmit(kind) ==
  /\ last.kind = kind
  /\ \E rec \in Returned : Upsert(kind, rec)

\* One write, reads, and writes of what was returned
RoundTripNext ==
  \/ \E kind \in KindSet : \E p \in RichPayloads(kind) : Normalize(kind, p)
  \/ \E kind \in KindSet : List(kind)
  \/ \E kind \in KindSet : GetOne(kind, "a")
  \/ \E kind \in KindSet : Resubmit(kind)

\* GET /api/<kind>/<segment>
GetPath(kind, seg) ==
  /\ LET d == decodeURIComponent(seg)
         r == getOne(kind, tables[kind], d.id)
     IN  result' = IF ~d.ok THEN sendError(500)
                   ELSE IF ~r.found THEN sendError(404)
                   ELSE [ok |-> TRUE, status |-> 200, val |-> r.val]
  /\ last' = [op |-> "getpath", kind |-> kind, arg |-> seg, gen |-> ""]
  /\ UNCHANGED <<tables, clock, nops, reqs, csvVars, facadeVars>>

\* db.json next to the server at startup.  <<>> stands for a file that is
\* missing or holds {}; a kind the file does not list gives no record
SeedLen == 3
SeedA ==
  [income   |-> <<[id |-> Str("a"), date |-> Str(D1), amount |-> Num(5)],
                  [id |-> Str("a"), date |-> Str(D2)],
                  [date |-> Str(D3), notes |-> Str("n")]>>,
   expenses |-> <<>>,
   payroll  |-> <<[id |-> Str("p"), date |-> Str(D1), employee |-> Bool(TRUE)],
                  [id |-> Str("q"), date |-> Str(D1), employee |-> Str("e")]>>]
SeedB == [expenses |-> <<[id |-> Str("s"), date |-> Str(D1)]>>]
SeedFiles == {<<>>, SeedA, SeedB}

\* Array.isArray(data[kind]) ? data[kind] : []
seedList(data, kind) == IF kind \in DOMAIN data THEN data[kind] ELSE <<>>

\* for (const rec of arr) try { upsert(kind, rec); } catch {}
\* gs[i] is what generateId() returns for the record i if it is called
RECURSIVE seedRecords(_, _, _, _, _, _)
seedRecords(kind, T, arr, i, gs, now) ==
  IF i > Len(arr) THEN T
  ELSE seedRecords(kind, upsert(kind, T, arr[i], gs[i], now).table, arr,
                   i + 1, gs, now)

\* [mutant] a seeding that does not look at the row count
seedFromJsonIfEmpty_Always(T, data, gs, now) ==
  [kind \in KindSet |-> seedRecords(kind, T[kind], seedList(data, kind), 1, gs, now)]

\* seedFromJsonIfEmpty(): the tables after it
seedFromJsonIfEmpty(T, data, gs, now) ==
  [kind \in KindSet |->
     IF Cardinality(T[kind]) = 0 /\ Len(seedList(data, kind)) # 0
     THEN seedRecords(kind, T[kind], seedList(data, kind), 1, gs, now)
     ELSE T[kind]]

\* The database file and db.json as the server process finds them
SeedInit ==
  /\ \/ tables = [k \in KindSet |-> {}] /\ clock = 0
     \/ tables = [k \in KindSet |-> IF k = "income" THEN {} ELSE StoredA(k)]
        /\ clock = 1
     \/ tables = [k \in KindSet |-> StoredA(k)] /\ clock = 1
  /\ nops = 0
  /\ last = NoCall
  /\ result = NoResult
  /\ reqs = <<>>
  /\ bundled \in SeedFiles

\* The module is loaded: seedFromJsonIfEmpty() runs, then the server listens
Start ==
  /\ last.op = "none"
  /\ \E gs \in [1..SeedLen -> generateId] :
       tables' = seedFromJsonIfEmpty(tables, bundled, gs, clock)
  /\ last' = [op |-> "start", kind |-> "", arg |-> tables, gen |-> ""]
  /\ result' = NoResult
  /\ UNCHANGED <<clock, nops, reqs, csvVars, facadeVars>>

\* The requests the started server handles: those that may leave a table
\* empty, and the read of it
Serve ==
  /\ last.op # "none"
  /\ \/ \E kind \in KindSet : \E id \in RemoveIds(kind) : Remove(kind, id)
     \/ \E kind \in KindSet : Clear(kind)
     \/ \E kind \in KindSet : List(kind)

SeedNext == Start \/ Serve

InitSeed ==
  /\ SeedInit /\ CsvIdle
  /\ storage = <<>> /\ session = 0 /\ calls = 0 /\ ipc = "idle"
  /\ toTry = <<>> /\ net = <<>> /\ available = FALSE /\ base = ""
  /\ mode = "server" /\ local = <<>> /\ initRet = "none" /\ tier = "none"
  /\ flast = <<>> /\ fresult = <<>> /\ endMirror = <<>>
SpecSeed == InitSeed /\ [][SeedNext]_vars

\* Two write requests under way at the same time.  A handler runs up to
\* `await readBody(req)` when its request arrives and, once the body is in,
\* from JSON.parse to the response without giving up the thread.
Requests == {1, 2}

RaceInit ==
  /\ \/ tables = [k \in KindSet |-> {}] /\ clock = 0
     \/ tables = [k \in KindSet |-> StoredA(k)] /\ clock = 1
  /\ nops = 0
  /\ last = NoCall
  /\ result = NoResult
  /\ reqs = [r \in Requests |->
               [pc |-> "new", method |-> "", kind |-> "", body |-> "",
                seq |-> 0, status |-> 0]]

\* The request r arrives: POST /api/<kind> or PUT /api/<kind>/n
Arrive(r, method, kind, body) ==
  /\ reqs[r].pc = "new"
  /\ reqs' = [reqs EXCEPT ![r] = [pc |-> "reading", method |-> method,
                                  kind |-> kind, body |-> body,
                                  seq |-> 0, status |-> 0]]
  /\ UNCHANGED <<tables, clock, nops, last, result, csvVars, facadeVars>>

\* readBody of the request r resolves: the rest of its handler runs
BodyRead(r) ==
  /\ reqs[r].pc = "reading"
  /\ LET q == reqs[r]
         pl == payloadOf(q.body)
         data == IF q.method = "PUT" THEN withPathId(pl, "n").data
                 ELSE dataOf(pl)
     IN  \E g \in generateId :
           LET u == upsert(q.kind, tables[q.kind], data, g, clock) IN
           /\ tables' = [tables EXCEPT ![q.kind] = u.table]
           /\ result' = IF u.ok
                        THEN [ok |-> TRUE, status |-> 200, val |-> u.val]
                        ELSE sendError(500)
           /\ last' = [op |-> "upsert", kind |-> q.kind, arg |-> data,
                       gen |-> ""]
           /\ reqs' = [reqs EXCEPT ![r].pc = "done", ![r].seq = nops + 1,
                                   ![r].status = IF u.ok THEN 200 ELSE 500]
  /\ nops' = nops + 1
  /\ UNCHANGED <<clock, csvVars, facadeVars>>

RaceNext ==
  \/ \E r \in Requests : \E method \in {"POST", "PUT"} : \E kind \in KindSet :
       \E body \in {BodyN1, BodyN2} : Arrive(r, method, kind, body)
  \/ \E r \in Requests : BodyRead(r)
  \/ Tick

InitRace == RaceInit /\ CsvIdle /\ FacadeIdle
SpecRace == InitRace /\ [][RaceNext]_vars

HttpNext ==
  \/ \E kind \in KindSet : \E seg \in Segments : GetPath(kind, seg)
  \/ \E kind \in KindSet : \E body \in Bodies : Post(kind, body)
  \/ \E kind \in KindSet : \E id \in PutIds : \E body \in PutBodies :
       Put(kind, id, body)
  \/ \E kind \in KindSet : \E body \in PutBodies : PutNoId(kind, body)
  \/ \E kind \in KindSet : List(kind)

\* The POST and PUT handlers on request bodies, one write per run
InitHttp == NormalizeInit /\ CsvIdle /\ FacadeIdle
SpecHttp == InitHttp /\ [][HttpNext]_vars

\* The store under one upsert of a payload of any JSON type
InitNormalize == NormalizeInit /\ CsvIdle /\ FacadeIdle
SpecNormalize == InitNormalize /\ [][NormalizeNext]_vars
SpecRoundTrip == InitNormalize /\ [][RoundTripNext]_vars

StoreIdle ==
  /\ tables = [k \in KindSet |-> {}]
  /\ clock = 0
  /\ nops = 0
  /\ last = NoCall
  /\ result = NoResult
  /\ reqs = <<>>

\* The store under sequences of calls
InitStore == StoreInit /\ CsvIdle /\ FacadeIdle
SpecStore == InitStore /\ [][StoreNext]_vars

(***************************************************************************)
(* CSV projection: sanitizeCSV and the row line of buildCsv.  A text is a  *)
(* sequence of characters; DQ is the double quote, LF the newline.         *)
(***************************************************************************)
DQ == "DQ"
LF == "LF"
COMMA == ","
Chars == {"a", COMMA, DQ, LF}

\* A field value: a text, or null
CsvText(cs) == [t |-> "str", cs |-> cs]
CsvNull == [t |-> "null", cs |-> <<>>]

\* /[",\n]/.test(str)
HasSpecial(cs) == \E i \in 1..Len(cs) : cs[i] \in {DQ, COMMA, LF}

\* str.replace(/"/g, '""')
RECURSIVE DoubleQuotes(_)
DoubleQuotes(cs) ==
  IF cs = <<>> THEN <<>>
  ELSE (IF Head(cs) = DQ THEN <<DQ, DQ>> ELSE <<Head(cs)>>) \o DoubleQuotes(Tail(cs))

\* [mutant] the field wrapped in quotes without doubling the embedded ones
sanitizeCSV_NoDoubling(value) ==
  IF value.t \in {"null", "undef"} THEN <<>>
  ELSE IF HasSpecial(value.cs) THEN <<DQ>> \o value.cs \o <<DQ>> ELSE value.cs

\* sanitizeCSV(value)
sanitizeCSV(value) ==
  IF value.t \in {"null", "undef"} THEN <<>>
  ELSE IF HasSpecial(value.cs)
       THEN <<DQ>> \o DoubleQuotes(value.cs) \o <<DQ>>
       ELSE value.cs

\* Array.prototype.join(sep) on texts
RECURSIVE Join(_, _)
Join(texts, sep) ==
  IF texts = <<>> THEN <<>>
  ELSE IF Len(texts) = 1 THEN texts[1]
  ELSE texts[1] \o <<sep>> \o Join(Tail(texts), sep)

\* resource.csvRow(rec).map(sanitizeCSV).join(','): one data line of buildCsv
csvLineOf(fields) ==
  Join([i \in 1..Len(fields) |-> sanitizeCSV(fields[i])], COMMA)

\* The texts of at most n characters
RECURSIVE TextsUpTo(_)
TextsUpTo(n) ==
  IF n = 0 THEN {<<>>}
  ELSE LET shorter == TextsUpTo(n - 1) IN
       shorter \cup {Append(cs, c) : cs \in shorter, c \in Chars}

\* The field values of the CSV runs
CsvValues == {CsvText(cs) : cs \in TextsUpTo(MaxLen)} \cup {CsvNull}

\* The rows of the CSV runs: one field, or two
CsvRows == {<<v>> : v \in CsvValues} \cup {<<v, w>> : v \in CsvValues, w \in CsvValues}

CsvInit ==
  /\ csvFields \in CsvRows
  /\ csvLine = <<>>
  /\ csvPc = "input"

\* buildCsv emits the line of the row
EmitRow ==
  /\ csvPc = "input"
  /\ csvLine' = csvLineOf(csvFields)
  /\ csvPc' = "emitted"
  /\ UNCHANGED <<csvFields, storeVars, facadeVars>>

CsvNext == EmitRow

\* sanitizeCSV and the row line on every bounded row
InitCsv == CsvInit /\ StoreIdle /\ FacadeIdle
SpecCsv == InitCsv /\ [][CsvNext]_vars

(***************************************************************************)
(* Tiered Client Facade (shared_api.js).  A client-facing record is a      *)
(* record of JavaScript values, here with the keys id and amount.          *)
(***************************************************************************)
EmptyMirror == [k \in KindSet |-> <<>>]

\* JSON.parse(JSON.stringify(rec)): a key whose value is undefined is
\* dropped, NaN and Infinity become null
JsonClone(rec) ==
  [k \in {x \in DOMAIN rec : rec[x].t # "undef"} |->
     IF rec[k].t \in {"nan", "inf"} THEN Null ELSE rec[k]]

\* loadLocalStorage(kind): the stored list, [] when the key is absent
loadLocalStorage(st, kind) ==
  IF st[kind].present THEN st[kind].list ELSE <<>>

\* [mutant] a save that does not reach localStorage
saveLocalStorage_Skip(st, kind, arr) == st

\* [mutant] a save under one key that every kind shares
saveLocalStorage_OneKey(st, kind, arr) ==
  [k \in DOMAIN st |->
     [present |-> TRUE, list |-> [i \in 1..Len(arr) |-> JsonClone(arr[i])]]]

\* saveLocalStorage(kind, arr): the storage after setItem(JSON.stringify(arr))
saveLocalStorage(st, kind, arr) ==
  [st EXCEPT ![kind] =
     [present |-> TRUE, list |-> [i \in 1..Len(arr) |-> JsonClone(arr[i])]]]

\* uid(): the texts it may return; it does not read the mirror
Uids == {"u1", "u2"}
uid == Uids

\* [mutant] an upsert of the mirror that always pushes the row
putRow_Push(arr, row) == Append(arr, row)

\* arr.findIndex(x => x.id === row.id), then arr[idx] = row or arr.push(row)
putRow(arr, row) ==
  IF \E i \in 1..Len(arr) : Get(arr[i], "id") = Get(row, "id")
  THEN LET idx == CHOOSE i \in 1..Len(arr) :
                    /\ Get(arr[i], "id") = Get(row, "id")
                    /\ \A j \in 1..(i - 1) : Get(arr[j], "id") # Get(row, "id")
       IN  [arr EXCEPT ![idx] = row]
  ELSE Append(arr, row)

\* [mutant] a Map whose set keeps the entry it already has
MapSet_KeepFirst(entries, rec) ==
  IF \E i \in 1..Len(entries) : Get(entries[i], "id") = Get(rec, "id")
  THEN entries
  ELSE Append(entries, rec)

\* byId.set(rec.id, rec) on the entries of a Map, in insertion order
MapSet(entries, rec) ==
  IF \E i \in 1..Len(entries) : Get(entries[i], "id") = Get(rec, "id")
  THEN [i \in 1..Len(entries) |->
          IF Get(entries[i], "id") = Get(rec, "id") THEN rec ELSE entries[i]]
  ELSE Append(entries, rec)

\* new Map(list.map(x => [x.id, x])) followed by byId.set for every extra:
\* Array.from(byId.values())
RECURSIVE MapSetAll(_, _)
MapSetAll(entries, recs) ==
  IF recs = <<>> THEN entries
  ELSE MapSetAll(MapSet(entries, Head(recs)), Tail(recs))

\* The mirror of one kind in the bundled tier: the db.json list, with the
\* localStorage records merged on top when there are any
mergeKind(data, extras) ==
  IF extras # <<>> THEN MapSetAll(MapSetAll(<<>>, data), extras) ELSE data

\* defaultBase(): the page's origin when it is served over http(s)
LOOPBACK == "http://127.0.0.1:3000"
defaultBase(origin) == IF origin = "file" THEN LOOPBACK ELSE origin

\* /^https?:/i.test(b) and /127\.0\.0\.1|localhost/.test(b) on the addresses
\* of the model
IsHttp(b) == b \in {LOOPBACK, "http://localhost:3000", "http://10.0.0.5:3000"}
IsLocalhost(b) == b \in {LOOPBACK, "http://localhost:3000", "localhost:3000"}

\* [mutant] a candidate list that holds the configured address twice
basesToTry_Retry(b) == <<b, b>>

\* basesToTry
basesToTry(b) ==
  IF ~IsHttp(b) THEN <<b, LOOPBACK>>
  ELSE IF ~IsLocalhost(b) THEN <<b, LOOPBACK>>
  ELSE <<b>>

\* [mutant] the last fallback without the check that a record exists
localOnlyAvailable_Always(loc) == TRUE

\* this.local.income.length || this.local.expenses.length || this.local.payroll.length
localOnlyAvailable(loc) == \E k \in KindSet : loc[k] # <<>>

(***************************************************************************)
(* Inputs of the facade runs.                                              *)
(***************************************************************************)
Rec(id, amount) == [id |-> Str(id), amount |-> Num(amount)]

\* db.json as served: per kind a list of records with distinct ids
BundledSets ==
  { [income |-> <<Rec("a", 5), Rec("b", 5)>>, expenses |-> <<Rec("a", 5)>>,
     payroll |-> <<>>] }

\* Records passed to API.upsert
FacadeRecs(kind) ==
  CASE kind = "income"   -> {Rec("a", 9), [amount |-> Num(5)]}
    [] kind = "expenses" -> {Rec("a", 9)}
    [] kind = "payroll"  -> {[id |-> Str("p"), amount |-> NaN]}

\* Ids passed to API.remove
FacadeRemoveIds(kind) == IF kind = "payroll" THEN {} ELSE {"a"}

\* init(base) with the page's location: [arg, origin]
InitArgs ==
  { [arg |-> "", origin |-> "file"],
    [arg |-> "", origin |-> "http://10.0.0.5:3000"],
    [arg |-> "api", origin |-> "file"] }

(***************************************************************************)
(* The facade as a state machine.                                          *)
(***************************************************************************)
NoFCall == [op |-> "none", kind |-> "", arg |-> <<>>]
NoFResult == [ok |-> TRUE, src |-> "none", val |-> <<>>, out |-> "none", at |-> ""]

\* The API object of a freshly loaded page
FreshApi ==
  /\ ipc = "idle"
  /\ toTry = <<>>
  /\ net = <<>>
  /\ available = FALSE
  /\ base = ""
  /\ mode = "server"
  /\ local = EmptyMirror
  /\ initRet = "none"
  /\ tier = "none"
  /\ flast = NoFCall
  /\ fresult = NoFResult

FacadeInit ==
  /\ bundled \in BundledSets
  /\ storage = [k \in KindSet |-> [present |-> FALSE, list |-> <<>>]]
  /\ session = 1
  /\ calls = 0
  /\ endMirror = [set |-> FALSE, m |-> EmptyMirror]
  /\ FreshApi

\* init(base): this.base and basesToTry are set, the first probe is sent
InitStart(a) ==
  /\ ipc = "idle"
  /\ LET b == IF a.arg # "" THEN a.arg ELSE defaultBase(a.origin) IN
       /\ base' = b
       /\ toTry' = basesToTry(b)
  /\ ipc' = "probe"
  /\ UNCHANGED <<bundled, storage, session, calls, net, available,
                 mode, local, initRet, tier, flast, fresult, endMirror>>
  /\ UNCHANGED <<storeVars, csvVars>>

\* [mutant] a successful probe that leaves this.base as it was
ProbeOk_KeepBase ==
  /\ ipc = "probe"
  /\ net' = Append(net, [req |-> "ping", at |-> Head(toTry), ok |-> TRUE])
  /\ available' = TRUE
  /\ mode' = "server"
  /\ initRet' = "true"
  /\ tier' = "live"
  /\ toTry' = <<>>
  /\ ipc' = "done"
  /\ UNCHANGED <<bundled, storage, session, calls, local, flast, base,
                 fresult, endMirror, storeVars, csvVars>>

\* fetch(b + '/api/ping') answers with r.ok
ProbeOk ==
  /\ ipc = "probe"
  /\ net' = Append(net, [req |-> "ping", at |-> Head(toTry), ok |-> TRUE])
  /\ base' = Head(toTry)
  /\ available' = TRUE
  /\ mode' = "server"
  /\ initRet' = "true"
  /\ tier' = "live"
  /\ toTry' = <<>>
  /\ ipc' = "done"
  /\ UNCHANGED <<bundled, storage, session, calls, local, flast,
                 fresult, endMirror, storeVars, csvVars>>
  /\ UNCHANGED <<storeVars, csvVars>>

\* fetch(b + '/api/ping') rejects or answers without r.ok
ProbeFail ==
  /\ ipc = "probe"
  /\ net' = Append(net, [req |-> "ping", at |-> Head(toTry), ok |-> FALSE])
  /\ toTry' = Tail(toTry)
  /\ ipc' = IF Tail(toTry) = <<>> THEN "fetch" ELSE "probe"
  /\ UNCHANGED <<bundled, storage, session, calls, available, base,
                 mode, local, initRet, tier, flast, fresult, endMirror>>
  /\ UNCHANGED <<storeVars, csvVars>>

\* fetch(base + '/db.json') answers with r.ok and a body that parses
FetchBundledOk ==
  /\ ipc = "fetch"
  /\ net' = Append(net, [req |-> "db", at |-> base, ok |-> TRUE])
  /\ local' = [k \in KindSet |-> mergeKind(bundled[k], loadLocalStorage(storage, k))]
  /\ available' = TRUE
  /\ mode' = "local"
  /\ initRet' = "true"
  /\ tier' = "bundled"
  /\ ipc' = "done"
  /\ UNCHANGED <<bundled, storage, session, calls, toTry, base, flast,
                 fresult, endMirror, storeVars, csvVars>>
  /\ UNCHANGED <<storeVars, csvVars>>

\* fetch(base + '/db.json') rejects, answers without r.ok, or its body does
\* not parse: the last fallback runs
FetchBundledFail ==
  /\ ipc = "fetch"
  /\ net' = Append(net, [req |-> "db", at |-> base, ok |-> FALSE])
  /\ LET loc == [k \in KindSet |-> loadLocalStorage(storage, k)] IN
       /\ local' = loc
       /\ IF localOnlyAvailable(loc)
          THEN /\ available' = TRUE
               /\ mode' = "local"
               /\ initRet' = "true"
               /\ tier' = "local"
          ELSE /\ available' = FALSE
               /\ mode' = mode
               /\ initRet' = "false"
               /\ tier' = "none"
  /\ ipc' = "done"
  /\ UNCHANGED <<bundled, storage, session, calls, toTry, base, flast,
                 fresult, endMirror, storeVars, csvVars>>
  /\ UNCHANGED <<storeVars, csvVars>>

\* What a request of a live-tier call may do
NetOutcomes == {"ok", "status", "reject"}

initFrame == <<bundled, session, ipc, toTry, net, available, base,
               mode, initRet, tier, endMirror, storeVars, csvVars>>

\* [mutant] a list that falls back to the mirror when the request fails
API_list_Fallback(kind) ==
  /\ ipc = "done"
  /\ flast' = [op |-> "list", kind |-> kind, arg |-> <<>>]
  /\ IF mode = "server"
     THEN \E out \in NetOutcomes :
            /\ fresult' = IF out = "ok"
                          THEN [ok |-> TRUE, src |-> "remote", val |-> <<>>, out |-> out, at |-> base]
                          ELSE [ok |-> TRUE, src |-> "mirror", val |-> local[kind], out |-> out, at |-> ""]
            /\ mode' = IF out = "ok" THEN mode ELSE "local"
     ELSE /\ fresult' = [ok |-> TRUE, src |-> "mirror", val |-> local[kind], out |-> "none", at |-> ""]
          /\ mode' = mode
  /\ UNCHANGED <<bundled, session, ipc, toTry, net, available, base,
                 initRet, tier, endMirror, storage, calls, local, storeVars,
                 csvVars>>

\* API.list(kind)
API_list(kind) ==
  /\ ipc = "done"
  /\ flast' = [op |-> "list", kind |-> kind, arg |-> <<>>]
  /\ IF mode = "server"
     THEN \E out \in NetOutcomes :
            fresult' = IF out = "ok"
                       THEN [ok |-> TRUE, src |-> "remote", val |-> <<>>, out |-> out, at |-> base]
                       ELSE [ok |-> FALSE, src |-> "remote", val |-> <<>>, out |-> out, at |-> base]
     ELSE fresult' = [ok |-> TRUE, src |-> "mirror", val |-> local[kind], out |-> "none", at |-> ""]
  /\ UNCHANGED <<initFrame, storage, calls, local>>

\* API.upsert(kind, rec)
API_upsert(kind, rec) ==
  /\ ipc = "done"
  /\ flast' = [op |-> "upsert", kind |-> kind, arg |-> rec]
  /\ IF mode = "server"
     THEN /\ \E out \in NetOutcomes :
               fresult' = IF out = "ok"
                          THEN [ok |-> TRUE, src |-> "remote", val |-> <<>>, out |-> out, at |-> base]
                          ELSE [ok |-> FALSE, src |-> "remote", val |-> <<>>, out |-> out, at |-> base]
          /\ UNCHANGED <<storage, calls, local>>
     ELSE /\ calls < MaxCalls
          /\ \E u \in uid :
               LET row == IF Truthy(Get(rec, "id")) THEN rec
                          ELSE [k \in DOMAIN rec \cup {"id"} |->
                                  IF k = "id" THEN Str(u) ELSE rec[k]]
                   arr == putRow(local[kind], row)
               IN  /\ local' = [local EXCEPT ![kind] = arr]
                   /\ storage' = saveLocalStorage(storage, kind, arr)
                   /\ fresult' = [ok |-> TRUE, src |-> "mirror", val |-> row, out |-> "none", at |-> ""]
          /\ calls' = calls + 1
  /\ UNCHANGED initFrame

\* API.remove(kind, id)
API_remove(kind, id) ==
  /\ ipc = "done"
  /\ flast' = [op |-> "remove", kind |-> kind, arg |-> id]
  /\ IF mode = "server"
     THEN /\ \E out \in NetOutcomes \cup {"notfound"} :
               fresult' = IF out = "reject"
                          THEN [ok |-> FALSE, src |-> "remote", val |-> <<>>, out |-> out, at |-> base]
                          ELSE [ok |-> TRUE, src |-> "remote", val |-> (out = "ok"), out |-> out, at |-> base]
          /\ UNCHANGED <<storage, calls, local>>
     ELSE /\ calls < MaxCalls
          /\ LET arr == SelectSeq(local[kind], LAMBDA x : Get(x, "id") # Str(id)) IN
               /\ local' = [local EXCEPT ![kind] = arr]
               /\ storage' = saveLocalStorage(storage, kind, arr)
          /\ fresult' = [ok |-> TRUE, src |-> "mirror", val |-> TRUE, out |-> "none", at |-> ""]
          /\ calls' = calls + 1
  /\ UNCHANGED initFrame

\* [mutant] a clear that answers true whatever became of its request
API_clear_Quiet(kind) ==
  /\ ipc = "done"
  /\ flast' = [op |-> "clear", kind |-> kind, arg |-> <<>>]
  /\ IF mode = "server"
     THEN /\ \E out \in NetOutcomes :
               fresult' = [ok |-> TRUE, src |-> "remote", val |-> TRUE, out |-> out, at |-> base]
          /\ UNCHANGED <<storage, calls, local>>
     ELSE /\ calls < MaxCalls
          /\ local' = [local EXCEPT ![kind] = <<>>]
          /\ storage' = saveLocalStorage(storage, kind, <<>>)
          /\ fresult' = [ok |-> TRUE, src |-> "mirror", val |-> TRUE, out |-> "none", at |-> ""]
          /\ calls' = calls + 1
  /\ UNCHANGED initFrame

\* API.clear(kind)
API_clear(kind) ==
  /\ ipc = "done"
  /\ flast' = [op |-> "clear", kind |-> kind, arg |-> <<>>]
  /\ IF mode = "server"
     THEN /\ \E out \in NetOutcomes :
               fresult' = IF out = "reject"
                          THEN [ok |-> FALSE, src |-> "remote", val |-> <<>>, out |-> out, at |-> base]
                          ELSE [ok |-> TRUE, src |-> "remote", val |-> (out = "ok"), out |-> out, at |-> base]
          /\ UNCHANGED <<storage, calls, local>>
     ELSE /\ calls < MaxCalls
          /\ local' = [local EXCEPT ![kind] = <<>>]
          /\ storage' = saveLocalStorage(storage, kind, <<>>)
          /\ fresult' = [ok |-> TRUE, src |-> "mirror", val |-> TRUE, out |-> "none", at |-> ""]
          /\ calls' = calls + 1
  /\ UNCHANGED initFrame

\* API.export(kind): a Blob from the backend, or one built from the mirror
API_export(kind) ==
  /\ ipc = "done"
  /\ flast' = [op |-> "export", kind |-> kind, arg |-> <<>>]
  /\ IF mode = "server"
     THEN \E out \in NetOutcomes :
            fresult' = IF out = "ok"
                       THEN [ok |-> TRUE, src |-> "remote", val |-> <<>>, out |-> out, at |-> base]
                       ELSE [ok |-> FALSE, src |-> "remote", val |-> <<>>, out |-> out, at |-> base]
     ELSE fresult' = [ok |-> TRUE, src |-> "mirror", val |-> <<>>, out |-> "none", at |-> ""]
  /\ UNCHANGED <<initFrame, storage, calls, local>>

\* The calls of API.attachments, API.settings and API.expenses.scanReceipt
AuxCalls ==
  {"attachments.list", "attachments.upload", "attachments.remove",
   "settings.all", "settings.get", "settings.set", "settings.remove",
   "expenses.scanReceipt"}

\* What such a call gives without the backend: [ok, val], ok FALSE when it
\* throws
auxLocal(name) ==
  CASE name \in {"attachments.list", "attachments.upload"}
         -> [ok |-> TRUE, val |-> Arr0]
    [] name \in {"attachments.remove", "settings.remove"}
         -> [ok |-> TRUE, val |-> Bool(TRUE)]
    [] name = "settings.all" -> [ok |-> TRUE, val |-> Obj0]
    [] name = "settings.get" -> [ok |-> TRUE, val |-> Str("")]
    [] OTHER                 -> [ok |-> FALSE, val |-> Undef]

\* [mutant] such a call sent to the backend whatever the mode
API_aux_Fetch(name, given) ==
  /\ ipc = "done"
  /\ flast' = [op |-> name, kind |-> "", arg |-> given]
  /\ \E out \in NetOutcomes :
       fresult' = [ok |-> out = "ok", src |-> "remote", val |-> Undef,
                   out |-> out, at |-> base]
  /\ UNCHANGED <<initFrame, storage, calls, local>>

\* One call of API.attachments, API.settings or API.expenses.scanReceipt;
\* given tells whether a file (scanReceipt) or files (upload) were passed
API_aux(name, given) ==
  /\ ipc = "done"
  /\ flast' = [op |-> name, kind |-> "", arg |-> given]
  /\ IF name = "expenses.scanReceipt" /\ ~given
     THEN fresult' = [ok |-> FALSE, src |-> "none", val |-> Undef, out |-> "none", at |-> ""]
     ELSE IF name = "attachments.upload" /\ ~given
     THEN fresult' = [ok |-> TRUE, src |-> "none", val |-> Arr0, out |-> "none", at |-> ""]
     ELSE IF mode = "server"
     THEN \E out \in NetOutcomes :
            fresult' =
              IF name \in {"attachments.remove", "settings.remove"}
              THEN [ok |-> out # "reject", src |-> "remote",
                    val |-> Bool(out = "ok"), out |-> out, at |-> base]
              ELSE [ok |-> out = "ok", src |-> "remote", val |-> Undef,
                    out |-> out, at |-> base]
     ELSE fresult' = [ok |-> auxLocal(name).ok, src |-> "none",
                      val |-> auxLocal(name).val, out |-> "none", at |-> ""]
  /\ UNCHANGED <<initFrame, storage, calls, local>>

\* The page is loaded again: a new API object, the same localStorage
NewSession ==
  /\ ipc = "done"
  /\ session < MaxSessions
  /\ session' = session + 1
  /\ endMirror' = IF tier = "bundled" THEN [set |-> TRUE, m |-> local]
                  ELSE IF tier = "local" THEN [set |-> FALSE, m |-> EmptyMirror]
                  ELSE endMirror
  /\ ipc' = "idle"
  /\ toTry' = <<>>
  /\ net' = <<>>
  /\ available' = FALSE
  /\ base' = ""
  /\ mode' = "server"
  /\ local' = EmptyMirror
  /\ initRet' = "none"
  /\ tier' = "none"
  /\ flast' = NoFCall
  /\ fresult' = NoFResult
  /\ UNCHANGED <<bundled, storage, calls, storeVars, csvVars>>

FacadeNext ==
  \/ \E a \in InitArgs : InitStart(a)
  \/ ProbeOk
  \/ ProbeFail
  \/ FetchBundledOk
  \/ FetchBundledFail
  \/ \E kind \in KindSet : API_list(kind)
  \/ \E kind \in KindSet : \E rec \in FacadeRecs(kind) : API_upsert(kind, rec)
  \/ \E kind \in KindSet : \E id \in FacadeRemoveIds(kind) : API_remove(kind, id)
  \/ \E kind \in KindSet : API_clear(kind)
  \/ \E kind \in KindSet : API_export(kind)
  \/ NewSession

\* init(base) with addresses of every form: none, a relative path, a host
\* without scheme, an http address of this machine and of another
ProbeArgs ==
  InitArgs \cup
  { [arg |-> "localhost:3000", origin |-> "file"],
    [arg |-> "http://localhost:3000", origin |-> "http://10.0.0.5:3000"] }

\* init over every form of address, and the calls that follow it
ProbeNext ==
  \/ \E a \in ProbeArgs : InitStart(a)
  \/ ProbeOk
  \/ ProbeFail
  \/ FetchBundledOk
  \/ FetchBundledFail
  \/ \E kind \in KindSet : API_list(kind)
  \/ \E kind \in KindSet : \E rec \in FacadeRecs(kind) : API_upsert(kind, rec)
  \/ NewSession

\* Every call of the facade within one page load
LocalNext ==
  \/ \E a \in InitArgs : InitStart(a)
  \/ ProbeOk
  \/ ProbeFail
  \/ FetchBundledOk
  \/ FetchBundledFail
  \/ \E kind \in KindSet : API_list(kind)
  \/ \E kind \in KindSet : \E rec \in FacadeRecs(kind) : API_upsert(kind, rec)
  \/ \E kind \in KindSet : \E id \in FacadeRemoveIds(kind) : API_remove(kind, id)
  \/ \E kind \in KindSet : API_clear(kind)
  \/ \E kind \in KindSet : API_export(kind)
  \/ \E name \in AuxCalls : \E given \in BOOLEAN : API_aux(name, given)

\* The facade over the page loads of one browser
InitFacade == FacadeInit /\ StoreIdle /\ CsvIdle
SpecFacade == InitFacade /\ [][FacadeNext]_vars
SpecLocal == InitFacade /\ [][LocalNext]_vars
SpecProbe == InitFacade /\ [][ProbeNext]_vars

\* The same, where every request that init awaits is eventually answered or
\* fails: each await of init resumes
SpecProbeFair ==
  /\ InitFacade
  /\ [][ProbeNext]_vars
  /\ WF_vars(ProbeOk \/ ProbeFail)
  /\ WF_vars(FetchBundledOk \/ FetchBundledFail)

(***************************************************************************)
(* The same calls made on a facade in a fallback tier and on a facade in   *)
(* the live tier.  The fallback facade is the one of the facade variables; *)
(* the live facade keeps no records, what it holds is the server's tables, *)
(* and last and result are the request it sent and what it returned.       *)
(***************************************************************************)
\* Ids of the calls: a plain one, and one that the path must escape
TierIds == {"a", "a b"}

\* encodeURIComponent(id) on the ids of the model
encodeURIComponent(id) == IF id = "a b" THEN "a%20b" ELSE id

\* A record of the kind with every field in canonical form: the texts t,
\* the numbers n
CanonRec(kind, id, d, t, n) ==
  CASE kind = "income" ->
         [id |-> Str(id), date |-> d, source |-> t, processor |-> t,
          amount |-> n, fees |-> n, notes |-> t]
    [] kind = "expenses" ->
         [id |-> Str(id), date |-> d, category |-> t, seller |-> t,
          items |-> t, orderNumber |-> t, total |-> n, notes |-> t,
          source |-> t]
    [] kind = "payroll" ->
         [id |-> Str(id), date |-> d, employee |-> t, amount |-> n,
          notes |-> t]

\* The records passed to upsert
CanonRecs(kind) ==
  {CanonRec(kind, id, Str(D1), Str("abc"), Num(5)) : id \in TierIds}
  \cup {CanonRec(kind, id, Str(""), Str("12"), Num(0)) : id \in TierIds}

\* A fallback facade whose init found a db.json without records and nothing
\* in localStorage, and the server of the live facade with empty tables
TierInit ==
  /\ StoreInit
  /\ bundled = EmptyMirror
  /\ storage = [k \in KindSet |-> [present |-> FALSE, list |-> <<>>]]
  /\ session = 1
  /\ calls = 0
  /\ endMirror = [set |-> FALSE, m |-> EmptyMirror]
  /\ ipc = "done"
  /\ toTry = <<>>
  /\ net = <<[req |-> "ping", at |-> LOOPBACK, ok |-> FALSE],
             [req |-> "db", at |-> LOOPBACK, ok |-> TRUE]>>
  /\ available = TRUE
  /\ base = LOOPBACK
  /\ mode = "local"
  /\ local = EmptyMirror
  /\ initRet = "true"
  /\ tier = "bundled"
  /\ flast = NoFCall
  /\ fresult = NoFResult

tierFrame == <<clock, reqs, csvVars, bundled, session, calls, endMirror, ipc,
               toTry, net, available, base, mode, initRet, tier>>

\* API.upsert(kind, rec) on both: the mirror and its storage entry; and
\* POST /api/<kind> with JSON.stringify(rec), answered with r.json()
TierUpsert(kind, rec) ==
  /\ nops < MaxOps
  /\ LET arr == putRow(local[kind], rec) IN
       /\ local' = [local EXCEPT ![kind] = arr]
       /\ storage' = saveLocalStorage(storage, kind, arr)
       /\ fresult' = [ok |-> TRUE, src |-> "mirror", val |-> rec,
                      out |-> "none", at |-> ""]
  /\ flast' = [op |-> "upsert", kind |-> kind, arg |-> rec]
  /\ \E g \in generateId :
       LET u == upsert(kind, tables[kind], JsonClone(rec), g, clock) IN
       /\ tables' = [tables EXCEPT ![kind] = u.table]
       /\ result' = IF u.ok
                    THEN [ok |-> TRUE, status |-> 200, val |-> JsonClone(u.val)]
                    ELSE sendError(500)
  /\ last' = [op |-> "upsert", kind |-> kind, arg |-> JsonClone(rec), gen |-> ""]
  /\ nops' = nops + 1
  /\ UNCHANGED tierFrame

\* API.remove(kind, id) on both: the mirror filtered; and
\* DELETE /api/<kind>/<encodeURIComponent(id)>, answered with r.ok
TierRemove(kind, id) ==
  /\ nops < MaxOps
  /\ LET arr == SelectSeq(local[kind], LAMBDA x : Get(x, "id") # Str(id)) IN
       /\ local' = [local EXCEPT ![kind] = arr]
       /\ storage' = saveLocalStorage(storage, kind, arr)
  /\ fresult' = [ok |-> TRUE, src |-> "mirror", val |-> TRUE,
                 out |-> "none", at |-> ""]
  /\ flast' = [op |-> "remove", kind |-> kind, arg |-> id]
  /\ LET d == decodeURIComponent(encodeURIComponent(id))
         r == remove(kind, tables[kind], d.id)
     IN  IF ~d.ok
         THEN /\ tables' = tables
              /\ result' = sendError(500)
         ELSE /\ tables' = [tables EXCEPT ![kind] = r.table]
              /\ result' = [ok |-> TRUE, status |-> IF r.val THEN 200 ELSE 404,
                            val |-> r.val]
  /\ last' = [op |-> "remove", kind |-> kind, arg |-> encodeURIComponent(id),
              gen |-> ""]
  /\ nops' = nops + 1
  /\ UNCHANGED tierFrame

\* API.clear(kind) on both
TierClear(kind) ==
  /\ nops < MaxOps
  /\ local' = [local EXCEPT ![kind] = <<>>]
  /\ storage' = saveLocalStorage(storage, kind, <<>>)
  /\ fresult' = [ok |-> TRUE, src |-> "mirror", val |-> TRUE,
                 out |-> "none", at |-> ""]
  /\ flast' = [op |-> "clear", kind |-> kind, arg |-> <<>>]
  /\ tables' = [tables EXCEPT ![kind] = clear(kind, tables[kind])]
  /\ result' = [ok |-> TRUE, status |-> 200, val |-> TRUE]
  /\ last' = [op |-> "clear", kind |-> kind, arg |-> <<>>, gen |-> ""]
  /\ nops' = nops + 1
  /\ UNCHANGED tierFrame

\* API.list(kind) on both: a copy of the mirror; and GET /api/<kind>,
\* answered with r.json()
TierList(kind) ==
  /\ fresult' = [ok |-> TRUE, src |-> "mirror", val |-> local[kind],
                 out |-> "none", at |-> ""]
  /\ flast' = [op |-> "list", kind |-> kind, arg |-> <<>>]
  /\ \E l \in list(kind, tables[kind]) :
       result' = [ok |-> TRUE, status |-> 200,
                  val |-> [i \in DOMAIN l |-> JsonClone(l[i])]]
  /\ last' = [op |-> "list", kind |-> kind, arg |-> <<>>, gen |-> ""]
  /\ UNCHANGED <<tables, nops, local, storage, tierFrame>>

TierNext ==
  \/ \E kind \in KindSet : \E rec \in CanonRecs(kind) : TierUpsert(kind, rec)
  \/ \E kind \in KindSet : \E id \in TierIds : TierRemove(kind, id)
  \/ \E kind \in KindSet : TierClear(kind)
  \/ \E kind \in KindSet : TierList(kind)

InitTier == TierInit /\ CsvIdle
SpecTier == InitTier /\ [][TierNext]_vars

\* The server under sequences of calls, or the facade over page loads
SystemNext ==
  \/ session = 0 /\ StoreNext
  \/ session > 0 /\ FacadeNext

InitSystem == InitStore \/ InitFacade
SpecSystem == InitSystem /\ [][SystemNext]_vars

\* The calls on one kind at a time: those of the server, with get, or those
\* of the facade within one page load
IsolationNext ==
  \/ session = 0 /\ StoreNext
  \/ session = 0 /\ \E kind \in KindSet : GetOne(kind, "a")
  \/ session > 0 /\ LocalNext

SpecIsolation == InitSystem /\ [][IsolationNext]_vars

\* A db.json that lists one id twice in a kind
RepeatedIdSet ==
  [income |-> <<Rec("a", 5), Rec("a", 7)>>, expenses |-> <<Rec("a", 5)>>,
   payroll |-> <<>>]

\* A db.json that lists the income records oldest first
OldestFirstSet ==
  [income   |-> <<[id |-> Str("a"), date |-> Str(D1)],
                  [id |-> Str("b"), date |-> Str(D2)]>>,
   expenses |-> <<>>, payroll |-> <<>>]

\* The facade over any db.json the page may be served with
BundledInit ==
  /\ bundled \in BundledSets \cup {RepeatedIdSet, OldestFirstSet}
  /\ storage = [k \in KindSet |-> [present |-> FALSE, list |-> <<>>]]
  /\ session = 1
  /\ calls = 0
  /\ endMirror = [set |-> FALSE, m |-> EmptyMirror]
  /\ FreshApi

InitBundled == BundledInit /\ StoreIdle /\ CsvIdle
SpecBundled == InitBundled /\ [][FacadeNext]_vars

(***************************************************************************)
(* Properties of the Resource Store.                                       *)
(***************************************************************************)
IdsOf(T) == {r.id : r \in T}
HasId(p) == Truthy(Get(p, "id"))

\* A table with updated_at blanked: what must not change when only the
\* update time may
NoUpdatedAt(T) == {[r EXCEPT !.updated_at = 0] : r \in T}

\* C1: right after upsert(kind, payload) with a payload that carries an id,
\* the same call made again (now or a second later, whatever generateId would
\* give) returns the same record and leaves the same rows with the same
\* fields and created_at; only updated_at may differ.
C1_UpsertIdempotent ==
  (last.op = "upsert" /\ HasId(last.arg)) =>
    \A now \in {clock, clock + 1} : \A g \in generateId :
      LET again == upsert(last.kind, tables[last.kind], last.arg, g, now) IN
      /\ again.ok = result.ok
      /\ again.val = result.val
      /\ NoUpdatedAt(again.table) = NoUpdatedAt(tables[last.kind])

\* C1 witness: an upsert with an id has just rewritten a row that an earlier
\* second had created
C1_Witness ==
  /\ last.op = "upsert" /\ HasId(last.arg) /\ result.ok
  /\ \E r \in tables[last.kind] :
       r.id = result.val.id /\ r.created_at < r.updated_at

\* C2 (as claimed): an upsert without an id returns a non-empty id that no
\* row of the kind had before the call, and adds exactly one row.
C2_FreshIdClaim ==
  [][(last'.op = "upsert" /\ ~HasId(last'.arg) /\ result'.ok) =>
       /\ result'.val.id.s # ""
       /\ result'.val.id \notin IdsOf(tables[last'.kind])
       /\ Cardinality(tables'[last'.kind]) = Cardinality(tables[last'.kind]) + 1
    ]_vars

\* C4: list(kind) returns every stored row of the kind exactly once, by date
\* descending and, among equal dates, by updated_at descending.
C4_ListOrdered ==
  last.op = "list" =>
    LET l == result.val
        T == tables[last.kind]
        rowOf(i) == CHOOSE r \in T : r.id = l[i].id
    IN  /\ DOMAIN l = 1..Cardinality(T)
        /\ \A r \in T : \E i \in DOMAIN l : l[i] = map(last.kind, r)
        /\ \A i, j \in DOMAIN l : i # j => l[i].id # l[j].id
        /\ \A i, j \in DOMAIN l : i < j =>
             /\ TextRank(l[i].date.s) >= TextRank(l[j].date.s)
             /\ l[i].date = l[j].date =>
                  rowOf(i).updated_at >= rowOf(j).updated_at

\* C4 witness: the three dates of the example, and two rows of one date
\* written in different seconds
C4_Witness ==
  /\ last.op = "list"
  /\ \/ /\ DOMAIN result.val = 1..3
        /\ result.val[1].date = Str(D3)
        /\ result.val[2].date = Str(D2)
        /\ result.val[3].date = Str(D1)
     \/ \E r1, r2 \in tables[last.kind] :
          r1.date = r2.date /\ r1.updated_at < r2.updated_at

\* C7: remove(kind, id) returns whether the id was stored; for an unknown id
\* it changes nothing; a stored id is gone afterwards, every other row
\* is untouched, list shows exactly the stored ids, and an id comes (back)
\* into a table only by an upsert that returns it.
C7_RemoveSemantics ==
  [][/\ last'.op = "remove" =>
          /\ result'.ok
          /\ result'.val = (Str(last'.arg) \in IdsOf(tables[last'.kind]))
          /\ ~result'.val => tables' = tables
          /\ tables'[last'.kind] =
               {r \in tables[last'.kind] : r.id # Str(last'.arg)}
          /\ \A k \in KindSet \ {last'.kind} : tables'[k] = tables[k]
     /\ last'.op = "list" =>
          {result'.val[i].id : i \in DOMAIN result'.val} = IdsOf(tables[last'.kind])
     /\ \A k \in KindSet : \A idv \in IdsOf(tables'[k]) \ IdsOf(tables[k]) :
          last'.op = "upsert" /\ last'.kind = k /\ result'.val.id = idv
    ]_vars

\* C7 witness: a stored id was removed (true), and an unknown one (false)
C7_Witness ==
  /\ last.op = "remove"
  /\ result.val
  /\ tables[last.kind] # {}

C7_WitnessUnknown ==
  /\ last.op = "remove"
  /\ ~result.val
  /\ tables[last.kind] # {}

\* A payload value that is missing or does not convert to a number
\* (Number gives NaN: text such as "abc", an object) or is null
NotANumber(v) == v.t \in {"undef", "null", "obj"} \/ (v.t = "str" /\ StrToNumber(v.s) = NaN)

\* A payload whose text fields can be stored (strings, numbers, null, absent)
TextFieldsStorable(kind, p) ==
  \A c \in DOMAIN p \ (NumericFields(kind) \cup {"id"}) : Bindable(p[c])

\* The record rec has a number, not text, null or NaN, in every numeric field
NumericFieldsAreNumbers(kind, rec) ==
  \A f \in NumericFields(kind) : rec[f].t \in {"num", "inf"}

RECURSIVE ReadCsv(_, _, _, _, _, _)
ReadCsv(cs, i, st, cur, row, rows) ==
  IF i > Len(cs)
  THEN IF st = "quoted" THEN <<"malformed">>
       ELSE Append(rows, Append(row, cur))
  ELSE LET c == cs[i] IN
       IF st = "quoted"
       THEN IF c # DQ THEN ReadCsv(cs, i + 1, "quoted", Append(cur, c), row, rows)
            ELSE IF i < Len(cs) /\ cs[i + 1] = DQ
            THEN ReadCsv(cs, i + 2, "quoted", Append(cur, DQ), row, rows)
            ELSE ReadCsv(cs, i + 1, "closed", cur, row, rows)
       ELSE IF c = COMMA
       THEN ReadCsv(cs, i + 1, "start", <<>>, Append(row, cur), rows)
       ELSE IF c = LF
       THEN ReadCsv(cs, i + 1, "start", <<>>, <<>>, Append(rows, Append(row, cur)))
       ELSE IF st = "closed" THEN <<"malformed">>
       ELSE IF st = "start" /\ c = DQ
       THEN ReadCsv(cs, i + 1, "quoted", <<>>, row, rows)
       ELSE ReadCsv(cs, i + 1, "plain", Append(cur, c), row, rows)

ParseCsv(cs) == ReadCsv(cs, 1, "start", <<>>, <<>>, <<>>)

CountDQ(cs) == Cardinality({i \in 1..Len(cs) : cs[i] = DQ})

\* C5: sanitizeCSV leaves a value without comma, quote or newline unchanged
\* and otherwise wraps it in quotes with every embedded quote doubled; the
\* emitted row, read back by the CSV quoting rule, is one record with exactly
\* the original field values in the original order.
C5_CsvRoundTrip ==
  csvPc = "emitted" =>
    /\ \A i \in 1..Len(csvFields) :
         LET cs == csvFields[i].cs
             out == sanitizeCSV(csvFields[i])
         IN  IF HasSpecial(cs)
             THEN /\ Len(out) = Len(cs) + CountDQ(cs) + 2
                  /\ out[1] = DQ /\ out[Len(out)] = DQ
                  /\ CountDQ(out) = 2 * CountDQ(cs) + 2
             ELSE out = cs
    /\ ParseCsv(csvLine) = << [i \in 1..Len(csvFields) |-> csvFields[i].cs] >>

\* C5 witness: a row of two fields, the first with a quote and a comma
C5_Witness ==
  /\ csvPc = "emitted"
  /\ Len(csvFields) = 2
  /\ csvFields[1].cs = <<DQ, COMMA>>
  /\ csvFields[2].cs = <<"a">>

(***************************************************************************)
(* Properties of the Tiered Client Facade.                                 *)
(***************************************************************************)
RecIds(l) == {Get(l[i], "id") : i \in 1..Len(l)}
Range(l) == {l[i] : i \in 1..Len(l)}
Stored(k) == loadLocalStorage(storage, k)

\* init has returned and no call has been made since
InitJustDone == ipc = "done" /\ flast = NoFCall

PingOk == \E i \in 1..Len(net) : net[i].req = "ping" /\ net[i].ok
DbOk == \E i \in 1..Len(net) : net[i].req = "db" /\ net[i].ok
DbAsked == \E i \in 1..Len(net) : net[i].req = "db"
HasLocal == \E k \in KindSet : Stored(k) # <<>>

\* C8: when init has returned: a probe succeeded iff it ended in the live
\* tier (mode server, available), and then db.json was never asked for;
\* otherwise db.json was fetched and parsed iff it ended in the bundled tier
\* (mode local, available, mirror = bundled merged with local storage);
\* otherwise local storage holds a record iff it ended in the local-only tier
\* (mode local, available, mirror = local storage); otherwise it returned
\* false with available false.  What init returned equals available.
C8_TierSelection ==
  InitJustDone =>
    /\ initRet \in {"true", "false"}
    /\ (initRet = "true") <=> available
    /\ tier = (IF PingOk THEN "live"
               ELSE IF DbOk THEN "bundled"
               ELSE IF HasLocal THEN "local" ELSE "none")
    /\ PingOk => ~DbAsked
    /\ tier = "live" => mode = "server" /\ available
    /\ tier = "bundled" =>
         /\ mode = "local" /\ available
         /\ local = [k \in KindSet |-> mergeKind(bundled[k], Stored(k))]
    /\ tier = "local" =>
         /\ mode = "local" /\ available
         /\ local = [k \in KindSet |-> Stored(k)]
    /\ tier = "none" => ~available /\ initRet = "false"

\* init fell through both probes and the db.json fetch to local storage
C8_Witness ==
  /\ InitJustDone /\ tier = "local"
  /\ Len(net) = 3 /\ ~PingOk /\ ~DbOk
  /\ local["income"] # <<>>

\* init found nothing at all
C8_WitnessUnavailable ==
  InitJustDone /\ tier = "none" /\ initRet = "false" /\ DbAsked

\* A step that is one of the five calls
FacadeCallStep ==
  /\ ipc = "done" /\ ipc' = "done"
  /\ flast'.op \in {"list", "upsert", "remove", "clear", "export"}

\* C9: once init has returned, a list, upsert, remove, clear or export call,
\* failed or not, leaves mode, base and available as they are and sends no
\* probe and no db.json request; the tier stays the one init chose.
C9_TierFixed ==
  [][FacadeCallStep =>
       /\ mode' = mode /\ base' = base /\ available' = available
       /\ net' = net /\ tier' = tier]_vars

\* A live-tier call has failed
C9_Witness ==
  /\ ipc = "done" /\ tier = "live" /\ mode = "server" /\ available
  /\ flast.op = "list" /\ ~fresult.ok

\* C10 (as claimed): a session that init resolves to the bundled tier, after
\* a bundled-tier session of the same browser, starts with a mirror that
\* holds, for every kind, the records the earlier session ended with.
C10_SessionRoundTripClaim ==
  (InitJustDone /\ tier = "bundled" /\ endMirror.set) =>
    \A k \in KindSet : Range(local[k]) = Range(endMirror.m[k])

\* A step that is one of the five calls, served from the mirror
FallbackCallStep == FacadeCallStep /\ mode = "local"

\* A record that JSON can carry as it is: no undefined, NaN or Infinity in it
JsonSafe(rec) == \A k \in DOMAIN rec : rec[k].t \notin {"undef", "nan", "inf"}

C12_FreshUidClaim ==
  [][(FallbackCallStep /\ flast'.op = "upsert" /\ ~HasId(flast'.arg)) =>
       /\ fresult'.val.id.s # ""
       /\ fresult'.val.id \notin RecIds(local[flast'.kind])
       /\ Len(local'[flast'.kind]) = Len(local[flast'.kind]) + 1
       /\ \A i \in 1..Len(local[flast'.kind]) :
            local'[flast'.kind][i] = local[flast'.kind][i]
    ]_vars

(***************************************************************************)
(* Further properties of the Resource Store.                               *)
(***************************************************************************)
\* The columns of a stored row that carry the record's data
DataCols(row) == DOMAIN row \ {"id", "created_at", "updated_at"}

\* The payload gives no value for the client-facing field f
Omits(p, f) ==
  IF f = "orderNumber"
  THEN "orderNumber" \notin DOMAIN p /\ "order_number" \notin DOMAIN p
  ELSE f \notin DOMAIN p

\* C13: an upsert on an id that is already stored leaves, in every data
\* column of the row, what the same payload gives when it is inserted into an
\* empty table; nothing of the previous version survives, and a field the
\* payload omits comes back as the empty text or 0.
C13_FullOverwrite ==
  [][(/\ last'.op = "upsert" /\ result'.ok /\ HasId(last'.arg)
      /\ result'.val.id \in IdsOf(tables[last'.kind])) =>
       LET k == last'.kind
           idv == result'.val.id
           new == selectOne(tables'[k], idv)
           alone == upsert(k, {}, last'.arg, "g1", clock)
       IN  /\ alone.ok
           /\ \A c \in DataCols(new) : new[c] = selectOne(alone.table, idv)[c]
           /\ result'.val = alone.val
           /\ \A f \in DOMAIN result'.val :
                Omits(last'.arg, f) => result'.val[f] \in {Str(""), Num(0)}
    ]_vars

\* The stored income row a, which had a source and an amount, was rewritten
\* by a payload that has neither
C13_Witness ==
  /\ last.op = "upsert" /\ last.kind = "income" /\ result.ok
  /\ result.val.id = Str("a")
  /\ "source" \notin DOMAIN last.arg /\ "amount" \notin DOMAIN last.arg
  /\ result.val.source = Str("") /\ result.val.amount = Num(0)
  /\ selectOne(tables["income"], Str("a")).created_at < clock

\* The step is a successful upsert that wrote the row idv of the kind k
UpsertWrote(k, idv) ==
  last'.op = "upsert" /\ last'.kind = k /\ result'.ok /\ result'.val.id = idv

\* C14: in every step, a row that is stored before and after keeps its
\* created_at; an upsert on its id sets its updated_at to the current time
\* and no other step touches it; a row that an upsert inserts gets both
\* timestamps at the current time; so updated_at never decreases and is never
\* earlier than created_at.
C14_Timestamps ==
  [][\A k \in KindSet : \A n \in tables'[k] :
       /\ n.created_at <= n.updated_at
       /\ n.updated_at <= clock'
       /\ UpsertWrote(k, n.id) => n.updated_at = clock
       /\ IF \E r \in tables[k] : r.id = n.id
          THEN LET r == selectOne(tables[k], n.id) IN
               /\ n.created_at = r.created_at
               /\ n.updated_at >= r.updated_at
               /\ ~UpsertWrote(k, n.id) => n = r
          ELSE /\ UpsertWrote(k, n.id)
               /\ n.created_at = clock
    ]_vars

\* A row created in second 0 has been upserted again in second 1
C14_Witness ==
  /\ last.op = "upsert" /\ result.ok /\ clock = 1
  /\ LET r == selectOne(tables[last.kind], result.val.id) IN
       r.created_at = 0 /\ r.updated_at = 1

\* ---------------------------------------------------------------------
\* C15: with the store available, upsert succeeds and returns the stored
\* record for every parsed payload whatever the JSON type of each field;
\* a handler run on a parsed payload never ends in an error response.
\* As stated: violated, a boolean, array or object value in a text or
\* numeric position that reaches the statement unconverted is refused
\* by the binding and the request is answered 500.
C15_UpsertNeverFailsClaim ==
  (last.op = "upsert") => (result.ok /\ result.status = 200)

\* ---------------------------------------------------------------------
\* C16: in every reachable state, for every kind, no two records share an
\* id, in the server store and in the facade's fallback mirror after init
\* and after any sequence of upsert/remove/clear.
\* As stated: violated in the mirror, the bundled list is copied as it is
\* when local storage holds nothing for the kind, so an id that db.json
\* lists twice is twice in the mirror.
C16_UniqueIdsClaim ==
  /\ \A k \in KindSet : \A r1, r2 \in tables[k] : r1.id = r2.id => r1 = r2
  /\ (ipc = "done" /\ mode = "local") =>
       \A k \in KindSet : \A i, j \in 1..Len(local[k]) :
         Get(local[k][i], "id") = Get(local[k][j], "id") => i = j

\* The record rec has a text in every text field of the kind
TextFieldsAreText(kind, rec) ==
  \A f \in TextFields(kind) : rec[f].t = "str"

\* The payload p omits the text field f or gives it null
\* (orderNumber is also read from order_number)
NoText(p, f) ==
  /\ Get(p, f) \in {Undef, Null}
  /\ f = "orderNumber" => Get(p, "order_number") \in {Undef, Null}

\* ---------------------------------------------------------------------
\* C17: in every record returned by upsert, list or get, every text field
\* of the kind is a text value, the empty text when the payload omitted it
\* or gave null; it is never null or undefined.
C17_TextCoercion ==
  /\ (last.op = "upsert" /\ result.ok) =>
       /\ TextFieldsAreText(last.kind, result.val)
       /\ \A f \in TextFields(last.kind) :
            NoText(last.arg, f) => result.val[f] = Str("")
  /\ (last.op = "get" /\ result.ok) =>
       TextFieldsAreText(last.kind, result.val)
  /\ last.op = "list" =>
       \A i \in DOMAIN result.val :
         TextFieldsAreText(last.kind, result.val[i])

\* C17 witness: expenses {id: "a", date, seller: null} comes back with the
\* empty text in seller and in every text field it omitted
C17_Witness ==
  /\ last.op = "upsert" /\ last.kind = "expenses" /\ result.ok
  /\ "seller" \in DOMAIN last.arg /\ last.arg.seller = Null
  /\ result.val.seller = Str("")
  /\ result.val.orderNumber = Str("")

\* A step that is a clear of the server store
ClearStep == session = 0 /\ last'.op = "clear" /\ nops' = nops + 1

\* A step that is a clear call of the facade in a fallback tier
FallbackClearStep == FallbackCallStep /\ flast'.op = "clear"

\* ---------------------------------------------------------------------
\* C18: clear(kind), in the server store and in the facade's fallback
\* tiers, leaves no record of that kind (the list right after it is empty),
\* succeeds on an empty kind as well, where it changes nothing, and a second
\* call leaves the state of the first; the other kinds are untouched.
C18_ClearIdempotent ==
  [][ /\ ClearStep =>
           LET k == last'.kind IN
           /\ result'.ok /\ result'.status = 200
           /\ tables'[k] = {}
           /\ list(k, tables'[k]) = {<<>>}
           /\ \A o \in KindSet \ {k} : tables'[o] = tables[o]
           /\ tables[k] = {} => tables' = tables
           /\ clear(k, tables'[k]) = tables'[k]
      /\ FallbackClearStep =>
           LET k == flast'.kind IN
           /\ fresult'.ok
           /\ local'[k] = <<>>
           /\ loadLocalStorage(storage', k) = <<>>
           /\ \A o \in KindSet \ {k} :
                local'[o] = local[o] /\ storage'[o] = storage[o]
           /\ (local[k] = <<>> /\ storage[k].present /\ Stored(k) = <<>>) =>
                (local' = local /\ storage' = storage)
    ]_vars

\* C18 witness: a clear of income on the server that found the kind already
\* cleared while expenses holds a row
C18_Witness ==
  /\ session = 0
  /\ last.op = "clear" /\ last.kind = "income" /\ result.ok
  /\ tables["income"] = {} /\ tables["expenses"] # {}
  /\ nops = MaxOps

\* C18 witness in the bundled tier: clear of income called twice, the
\* mirror and the stored list of income empty, expenses still held
C18_WitnessFallback ==
  /\ ipc = "done" /\ tier = "bundled" /\ calls = 2
  /\ flast.op = "clear" /\ flast.kind = "income" /\ fresult.ok
  /\ local["income"] = <<>> /\ storage["income"].present
  /\ local["expenses"] # <<>>

\* ---------------------------------------------------------------------
\* C19: a GET for an id returns the denormalized record when a record with
\* that id is stored in that kind and status 404 when it is not; it never
\* answers with an empty success result or with a server error, and never
\* modifies the store.
\* As stated: violated, a path segment with a malformed percent escape
\* makes decodeURIComponent throw and the request is answered 500.
C19_GetFoundOr404Claim ==
  last.op = "getpath" =>
    /\ result.status \in {200, 404}
    /\ result.status = 200 <=>
         \E r \in tables[last.kind] :
           r.id = Str(decodeURIComponent(last.arg).id)
    /\ result.status = 200 =>
         \E r \in tables[last.kind] : result.val = map(last.kind, r)

\* A step that is a POST or PUT handler run
WriteRequestStep == last'.op \in {"post", "put"}

\* ---------------------------------------------------------------------
\* C20 as stated: a POST or PUT whose body cannot be parsed as JSON is
\* answered 400 before upsert is called and the store is as it was.
\* Violated by the empty body, which is not JSON text: the handler takes it
\* for {} and writes a row.
C20_UnparseableRejectedClaim ==
  [][(WriteRequestStep /\ ~JSONparse(last'.arg.body).ok) =>
       (result'.status = 400 /\ tables' = tables)]_vars

\* C20 (amended): a POST or PUT whose body is not empty and cannot be parsed
\* as JSON is answered 400 before upsert is called, and the store is exactly
\* as it was; an empty body is handled as the body {}.
C20_NonEmptyUnparseableRejected ==
  [][WriteRequestStep =>
       LET body == last'.arg.body IN
       /\ (body # "" /\ ~JSONparse(body).ok) =>
            /\ result' = sendError(400)
            /\ nops' = nops
            /\ tables' = tables /\ clock' = clock
       /\ body = "" =>
            /\ result'.status = 200
            /\ last'.op = "post" =>
                 \E g \in generateId :
                   tables' = [tables EXCEPT ![last'.kind] =
                     upsert(last'.kind, tables[last'.kind], <<>>, g, clock).table]
            /\ last'.op = "put" =>
                 tables' = [tables EXCEPT ![last'.kind] =
                   upsert(last'.kind, tables[last'.kind],
                          [id |-> Str(last'.arg.id)], "g1", clock).table]
    ]_vars

\* C20 witness: PUT /api/income/a with the body "{bad" answered 400, the
\* stored row a still there with its timestamps
C20_Witness ==
  /\ last.op = "put" /\ last.kind = "income" /\ last.arg.body = "{bad"
  /\ result.status = 400
  /\ nops = 0
  /\ tables["income"] = StoredA("income")

\* A step that is a list, upsert, remove or clear call in the live tier
LiveCallStep ==
  /\ FacadeCallStep /\ mode = "server"
  /\ flast'.op \in {"list", "upsert", "remove", "clear"}

\* The request behind the call of this step rejected or was answered with
\* a status that is not a success
RequestFailed == fresult'.out \in {"reject", "status", "notfound"}

\* ---------------------------------------------------------------------
\* C21: in the live tier, when the request behind a list, upsert, remove or
\* clear call fails, the call reports the failure to its caller (an
\* exception; for remove and clear an exception when the request rejects
\* and false when it is answered without success), returns nothing of the
\* mirror or of local storage, and leaves mode 'server'.
C21_LiveFailureSurfaced ==
  [][(LiveCallStep /\ RequestFailed) =>
       /\ IF flast'.op \in {"list", "upsert"} \/ fresult'.out = "reject"
          THEN ~fresult'.ok
          ELSE fresult'.ok /\ fresult'.val = FALSE
       /\ fresult'.src = "remote"
       /\ mode' = "server"
       /\ local' = local /\ storage' = storage]_vars

\* C21 witness: a clear in the live tier whose request was answered with
\* an error status returned false
C21_Witness ==
  /\ ipc = "done" /\ tier = "live" /\ mode = "server"
  /\ flast.op = "clear" /\ fresult.out = "status"
  /\ fresult.ok /\ fresult.val = FALSE

(***************************************************************************)
(* Properties of the server under concurrent requests.                     *)
(***************************************************************************)
\* Both requests have been answered and wrote the same kind
BothDone ==
  /\ \A r \in Requests : reqs[r].pc = "done"
  /\ reqs[1].kind = reqs[2].kind

\* The request whose upsert ran last
RanLast == CHOOSE r \in Requests : reqs[r].seq = 2

\* The payload the handler of the request r passes to upsert
PayloadOfRequest(r) ==
  IF reqs[r].method = "PUT"
  THEN withPathId(payloadOf(reqs[r].body), "n").data
  ELSE dataOf(payloadOf(reqs[r].body))

\* ---------------------------------------------------------------------
\* C22: under every interleaving of two concurrent write requests (POST or
\* PUT) that carry the same unseen id, the store ends with exactly one row
\* with that id, whose non-timestamp fields all come from the normalized
\* payload of the request whose upsert ran last; both requests get a
\* success response.
C22_ConcurrentSameId ==
  (session = 0 /\ reqs # <<>> /\ BothDone) =>
    LET k == reqs[1].kind
        rows == {r \in tables[k] : r.id = Str("n")}
        alone == upsert(k, {}, PayloadOfRequest(RanLast), "g1", clock)
    IN  /\ Cardinality(rows) = 1
        /\ \A r \in Requests : reqs[r].status = 200
        /\ \A row \in rows : \A c \in DataCols(row) :
             row[c] = selectOne(alone.table, Str("n"))[c]
        /\ \A o \in KindSet \ {k} : ~\E r \in tables[o] : r.id = Str("n")

\* C22 witness: the two requests carry different payloads, the request 2
\* was answered first, and the row n holds the notes of the request 1 and
\* not the amount of the request 2
C22_Witness ==
  /\ reqs # <<>> /\ BothDone
  /\ reqs[1].kind = "income"
  /\ reqs[1].method = "POST" /\ reqs[2].method = "PUT"
  /\ reqs[1].body = BodyN1 /\ reqs[2].body = BodyN2
  /\ reqs[2].seq = 1 /\ reqs[1].seq = 2
  /\ selectOne(tables["income"], Str("n")).notes = Str("x")
  /\ selectOne(tables["income"], Str("n")).amount = Num(0)
  /\ tables["income"] # {selectOne(tables["income"], Str("n"))}

(***************************************************************************)
(* Properties of the seeding.                                              *)
(***************************************************************************)
\* The step is the server start
StartStep == last'.op = "start"

\* upsert accepts the record rec of the kind k (it can be bound)
Accepted(k, rec) == upsert(k, {}, rec, "g1", 0).ok

\* The row that the record rec alone gives, at the time now
RowAlone(k, rec, now) ==
  CHOOSE r \in upsert(k, {}, rec, "g1", now).table : TRUE

\* The table T holds the records of the list arr that upsert accepts, and
\* nothing else: a row per id, with the data of the last record of that id,
\* and a row with a generated id for a record without one
SeededFrom(k, T, arr, now) ==
  /\ \A i \in 1..Len(arr) : (Accepted(k, arr[i]) /\ HasId(arr[i])) =>
       \E row \in T :
         /\ row.id = RowAlone(k, arr[i], now).id
         /\ (\A j \in (i + 1)..Len(arr) :
               ~(Accepted(k, arr[j]) /\ Get(arr[j], "id") = Get(arr[i], "id")))
            => \A c \in DataCols(row) : row[c] = RowAlone(k, arr[i], now)[c]
  /\ \A i \in 1..Len(arr) : (Accepted(k, arr[i]) /\ ~HasId(arr[i])) =>
       \E row \in T :
         /\ row.id \in {Str(g) : g \in generateId}
         /\ \A c \in DataCols(row) : row[c] = RowAlone(k, arr[i], now)[c]
  /\ \A row \in T : \E i \in 1..Len(arr) :
       /\ Accepted(k, arr[i])
       /\ IF HasId(arr[i]) THEN row.id = RowAlone(k, arr[i], now).id
          ELSE row.id \in {Str(g) : g \in generateId}
  /\ \A r1, r2 \in T : r1.id = r2.id => r1 = r2

\* ---------------------------------------------------------------------
\* C23: seeding runs once, at server startup, before any request is served;
\* for each kind independently it upserts the records of db.json if and
\* only if the table of the kind has no row and db.json lists at least one
\* record for the kind; a table that has a row is left unchanged, and no
\* request handled later seeds.
C23_SeedOnlyEmptyAtStartup ==
  [][ /\ StartStep =>
           /\ last.op = "none" /\ nops = 0
           /\ \A k \in KindSet :
                IF tables[k] = {} /\ seedList(bundled, k) # <<>>
                THEN SeededFrom(k, tables'[k], seedList(bundled, k), clock)
                ELSE tables'[k] = tables[k]
      /\ ~StartStep =>
           /\ last.op # "none"
           /\ \A k \in KindSet : tables'[k] \subseteq tables[k]
    ]_vars

\* C23 witness: the server started on an empty income table and non-empty
\* tables of the other kinds, with a db.json that lists income and payroll
\* records; income was seeded (the id a once, with the data of its second
\* record, next to a generated id), payroll was left as it was, and a clear
\* of income handled afterwards left the table empty
C23_Witness ==
  /\ bundled = SeedA
  /\ last.op = "clear" /\ last.kind = "income"
  /\ tables["income"] = {}
  /\ tables["payroll"] = StoredA("payroll")
  /\ tables["expenses"] = StoredA("expenses")

\* The state right after that start
C23_WitnessSeeded ==
  /\ bundled = SeedA /\ last.op = "start"
  /\ last.arg["income"] = {} /\ last.arg["payroll"] # {}
  /\ Cardinality(tables["income"]) = 2
  /\ selectOne(tables["income"], Str("a")).date = Str(D2)
  /\ tables["payroll"] = last.arg["payroll"]

(***************************************************************************)
(* Properties of buildCsv.                                                 *)
(***************************************************************************)
\* The positions of the numeric columns in the header of a kind
NumericColumns(kind) ==
  {i \in 1..Len(csvHeader(kind)) :
     csvHeader(kind)[i] \in {"AmountGBP", "FeesGBP", "TotalGBP"}}

\* The text has digits, a point and exactly two digits after it
TwoDecimals(text) ==
  text \in {"0.00", "1.00", "5.00", "7.00", "9.00", "12.00"}

\* ---------------------------------------------------------------------
\* C24: buildCsv(kind) is the header followed by exactly one row per record
\* of list(kind), in list order; every data row has as many fields as the
\* header has columns; every numeric column is rendered with exactly two
\* decimal places.
\* As stated: violated, a stored amount of Infinity is rendered "Infinity".
C24_CsvShapeClaim ==
  last.op = "csv" =>
    LET k == last.kind
        csv == result.val
    IN  /\ csv[1] = csvHeader(k)
        /\ Len(csv) = 1 + Cardinality(tables[k])
        /\ \A i \in 2..Len(csv) :
             /\ Len(csv[i]) = Len(csvHeader(k))
             /\ \E r \in tables[k] : csv[i][1] = r.date.s
             /\ \A c \in NumericColumns(k) : TwoDecimals(csv[i][c])

\* ---------------------------------------------------------------------
\* C25: in every tier, remove(kind, id) returns true if and only if a
\* record with that id existed in that kind just before the call, and false
\* for an unknown id.
\* As stated: violated in the bundled and local-only tiers, where remove
\* returns true whatever the mirror held.
C25_RemoveReportsClaim ==
  [][(FallbackCallStep /\ flast'.op = "remove") =>
       (fresult'.val = TRUE <=>
          Str(flast'.arg) \in RecIds(local[flast'.kind]))]_vars

\* ---------------------------------------------------------------------
\* C26: in the bundled or local-only tier, after init and after any
\* sequence of upsert/remove/clear calls, list(kind) returns the mirror's
\* records ordered by date descending.
\* As stated: violated, list returns a copy of the mirror in the order of
\* db.json and of the upserts.
C26_FallbackListOrderedClaim ==
  (ipc = "done" /\ mode = "local" /\ flast.op = "list") =>
    /\ fresult.val = local[flast.kind]
    /\ \A i, j \in 1..Len(fresult.val) :
         (/\ i < j
          /\ "date" \in DOMAIN fresult.val[i]
          /\ "date" \in DOMAIN fresult.val[j]) =>
           TextRank(fresult.val[i].date.s) >= TextRank(fresult.val[j].date.s)

\* A step that is a call of the facade made in mode 'local'
LocalModeCallStep == ipc = "done" /\ ipc' = "done" /\ mode = "local"

\* ---------------------------------------------------------------------
\* C27: in mode 'local' no facade call issues a network request: list,
\* upsert, remove, clear and export work on the mirror and local storage,
\* attachments.list/upload/remove and settings.all/get/remove return a
\* fixed empty or true result, and settings.set and expenses.scanReceipt
\* fail with an error, without contacting the backend.
C27_LocalModeOffline ==
  [][LocalModeCallStep =>
       /\ fresult'.out = "none" /\ fresult'.src # "remote"
       /\ net' = net /\ mode' = "local"
       /\ CASE flast'.op \in {"list", "upsert", "remove", "clear", "export"}
                 -> fresult'.ok /\ fresult'.src = "mirror"
            [] flast'.op \in {"attachments.list", "attachments.upload"}
                 -> fresult'.ok /\ fresult'.val = Arr0
            [] flast'.op \in {"attachments.remove", "settings.remove"}
                 -> fresult'.ok /\ fresult'.val = Bool(TRUE)
            [] flast'.op = "settings.all"
                 -> fresult'.ok /\ fresult'.val = Obj0
            [] flast'.op = "settings.get"
                 -> fresult'.ok /\ fresult'.val = Str("")
            [] flast'.op \in {"settings.set", "expenses.scanReceipt"}
                 -> ~fresult'.ok
    ]_vars

\* C27 witness: in the bundled tier, after two calls that wrote the mirror,
\* scanReceipt was called with a file and threw without a request
C27_Witness ==
  /\ ipc = "done" /\ tier = "bundled" /\ mode = "local" /\ calls = 2
  /\ flast.op = "expenses.scanReceipt" /\ flast.arg = TRUE
  /\ ~fresult.ok /\ fresult.out = "none"

(***************************************************************************)
(* Properties of API.init.                                                 *)
(***************************************************************************)
\* The step sends a liveness probe
ProbeStep ==
  /\ Len(net') = Len(net) + 1
  /\ net'[Len(net')].req = "ping"

\* The address the probe of this step is sent to
ProbedAt == net'[Len(net')].at

\* ---------------------------------------------------------------------
\* C28 as stated: the default address is probed only after the configured
\* address failed and only when the configured address is not itself a
\* localhost/127.0.0.1 address.  Violated by a configured address that
\* names localhost without the http scheme: the default is probed after it.
C28_DefaultOnlyIfNotLocalhostClaim ==
  [][(ProbeStep /\ net # <<>>) =>
       (ProbedAt = LOOPBACK /\ ~net[1].ok /\ ~IsLocalhost(net[1].at))]_vars

\* C28 (amended): init probes the configured address first; it probes the
\* default address http://127.0.0.1:3000 only as its second probe, after
\* the configured address failed and only when the configured address is
\* not an http(s) address that names localhost or 127.0.0.1; once a probe
\* has succeeded init sends nothing more, base is the address that
\* answered, and every later live-tier call is sent to that base.
C28_ProbeOrder ==
  /\ [][ProbeStep =>
          IF net = <<>> THEN ProbedAt = base
          ELSE /\ Len(net) = 1 /\ net[1].req = "ping" /\ ~net[1].ok
               /\ ProbedAt = LOOPBACK
               /\ ~(IsHttp(net[1].at) /\ IsLocalhost(net[1].at))]_vars
  /\ [](\A i \in 1..Len(net) :
          (net[i].req = "ping" /\ net[i].ok) =>
            (i = Len(net) /\ (ipc = "done" => base = net[i].at)))
  /\ [][(FacadeCallStep /\ tier = "live") =>
          (fresult'.src = "remote" /\ fresult'.at = net[Len(net)].at)]_vars

\* C28 witness: the page's own address failed, the default answered, and
\* a list call went to the default
C28_Witness ==
  /\ ipc = "done" /\ tier = "live" /\ Len(net) = 2
  /\ net[1].at = "http://10.0.0.5:3000" /\ ~net[1].ok
  /\ net[2].at = LOOPBACK /\ net[2].ok
  /\ base = LOOPBACK
  /\ flast.op = "list" /\ fresult.at = LOOPBACK

\* C28 witness: a configured http address of this machine failed and the
\* default was not probed: db.json was asked for next
C28_WitnessLocalhost ==
  /\ Len(net) = 2
  /\ net[1].req = "ping" /\ net[1].at = "http://localhost:3000" /\ ~net[1].ok
  /\ net[2].req = "db"

\* The requests of init that are liveness probes, and those for db.json
InitPings == SelectSeq(net, LAMBDA e : e.req = "ping")
InitFetches == SelectSeq(net, LAMBDA e : e.req = "db")

\* ---------------------------------------------------------------------
\* C29: init never retries.  It sends at most two probes, no two of them
\* to the same address, and at most one request for the bundled dataset;
\* a request follows only requests that failed, the one for the dataset
\* only after every probe; and, every request being answered or failing
\* eventually, an init that has started completes with true or false.
C29_InitNoRetryTerminates ==
  /\ [](/\ Len(InitPings) <= 2
        /\ Len(InitFetches) <= 1
        /\ \A i, j \in 1..Len(net) :
             (i < j) => (~net[i].ok /\ net[i].req = "ping"
                         /\ <<net[i].req, net[i].at>> # <<net[j].req, net[j].at>>)
        /\ (ipc = "done") <=> (initRet \in {"true", "false"}))
  /\ [][(net' # net /\ net' # <<>> /\ net # <<>>) =>
          (~net[Len(net)].ok /\ Len(net') = Len(net) + 1)]_vars
  /\ (ipc \in {"probe", "fetch"}) ~> (ipc = "done" /\ initRet \in {"true", "false"})

\* C29 witness: both probes and the request for db.json failed, nothing is
\* stored, and init completed with false after three requests
C29_Witness ==
  /\ ipc = "done" /\ initRet = "false"
  /\ Len(net) = 3 /\ Len(InitPings) = 2 /\ Len(InitFetches) = 1
  /\ \A i \in 1..3 : ~net[i].ok

\* The rows of the table T other than the row with the id idv
RowsBut(T, idv) == {r \in T : r.id # idv}

\* ---------------------------------------------------------------------
\* C30: a PUT to /api/<kind>/<X> with a parseable body writes the record
\* with id X whatever id the body carries, creating or overwriting exactly
\* the row X of that kind and no other row; a PUT without an id in the path
\* changes nothing and is answered 405.
\* As stated: violated by a body that parses to a number, on which the id
\* of the path cannot be set, so that a row with a generated id is created;
\* and by the body null, which is answered 500.
C30_PutWritesPathIdClaim ==
  [][/\ (last'.op = "put" /\ JSONparse(last'.arg.body).ok) =>
          LET k == last'.kind
              X == Str(last'.arg.id) IN
          /\ result'.status = 200
          /\ \E r \in tables'[k] : r.id = X /\ result'.val = map(k, r)
          /\ RowsBut(tables'[k], X) = RowsBut(tables[k], X)
          /\ \A o \in KindSet \ {k} : tables'[o] = tables[o]
     /\ (last'.op = "put405") =>
          (result' = sendError(405) /\ tables' = tables)]_vars

(***************************************************************************)
(* Properties of the normalization round trip.                             *)
(***************************************************************************)
\* A stored row without its timestamps
NoStamps(r) == [r EXCEPT !.created_at = 0, !.updated_at = 0]

\* The step upserts a record that is map of a row the table holds
RoundTripStep ==
  /\ last'.op = "upsert" /\ nops' = nops + 1
  /\ \E r \in tables[last'.kind] : last'.arg = map(last'.kind, r)

\* The payload p with the key orderNumber renamed to order_number
OtherSpelling(p) ==
  [k \in (DOMAIN p \ {"orderNumber"}) \cup {"order_number"} |->
     IF k = "order_number" THEN p["orderNumber"] ELSE p[k]]

\* ---------------------------------------------------------------------
\* C31: upserting a record exactly as upsert, get or list returned it
\* leaves every non-timestamp field of the stored row unchanged; for
\* expenses either spelling of the order number gives the same stored row,
\* and the record returned names it orderNumber.
\* As stated: violated by a stored row whose numeric column holds NULL (the
\* payload gave a value that is not a number): map returns 0 for it, and
\* the upsert of that record stores 0 where NULL was.
C31_RoundTripClaim ==
  /\ [][RoundTripStep =>
          LET k == last'.kind
              old == selectOne(tables[k], last'.arg.id) IN
          /\ result'.ok
          /\ \E new \in tables'[k] :
               new.id = old.id /\ NoStamps(new) = NoStamps(old)]_vars
  /\ [](\A p \in RichPayloads("expenses") : \A g \in generateId :
          "orderNumber" \in DOMAIN p =>
             toRow("expenses", OtherSpelling(p), g) = toRow("expenses", p, g))
  /\ []((last.kind = "expenses" /\ last.op \in {"upsert", "get"}
         /\ result.status = 200) =>
          ("orderNumber" \in DOMAIN result.val
           /\ "order_number" \notin DOMAIN result.val))

(***************************************************************************)
(* Properties of the separation of the kinds.                              *)
(***************************************************************************)
\* The records of the list arr other than those with the id idv
MirrorBut(arr, idv) == SelectSeq(arr, LAMBDA x : Get(x, "id") # idv)

\* ---------------------------------------------------------------------
\* C32: every upsert, remove, clear, get and list on one kind leaves the
\* records of the two other kinds unchanged, in the server store and in the
\* facade's fallback mirror and local storage; an upsert or remove on one
\* id also leaves every other record of the same kind unchanged, and a get
\* or list changes no record at all.
C32_KindsIsolated ==
  /\ [][\A o \in KindSet \ {last'.kind} : tables'[o] = tables[o]]_vars
  /\ [][(last'.op = "upsert" /\ nops' = nops + 1) =>
          IF result'.ok
          THEN RowsBut(tables'[last'.kind], result'.val.id)
                 = RowsBut(tables[last'.kind], result'.val.id)
          ELSE tables' = tables]_vars
  /\ [][(last'.op = "remove" /\ nops' = nops + 1) =>
          RowsBut(tables'[last'.kind], Str(last'.arg))
            = RowsBut(tables[last'.kind], Str(last'.arg))]_vars
  /\ [][(last'.op \in {"list", "get"}) => tables' = tables]_vars
  /\ [][FallbackCallStep =>
          LET k == flast'.kind IN
          /\ \A o \in KindSet \ {k} :
               local'[o] = local[o] /\ storage'[o] = storage[o]
          /\ (flast'.op \in {"list", "export"}) =>
               (local' = local /\ storage' = storage)
          /\ (flast'.op = "upsert") =>
               MirrorBut(local'[k], Get(fresult'.val, "id"))
                 = MirrorBut(local[k], Get(fresult'.val, "id"))
          /\ (flast'.op = "remove") =>
               MirrorBut(local'[k], Str(flast'.arg))
                 = MirrorBut(local[k], Str(flast'.arg))]_vars

\* C32 witness: on the server, an upsert of income changed the row a of
\* income while income held another row and expenses held rows
C32_Witness ==
  /\ session = 0
  /\ last.op = "upsert" /\ last.kind = "income" /\ result.ok
  /\ result.val.id = Str("a")
  /\ Cardinality(tables["income"]) >= 2
  /\ tables["expenses"] # {}

\* C32 witness in the bundled tier: an upsert of income wrote the mirror and
\* the stored list of income while the mirror of expenses held a record and
\* nothing was stored for expenses
C32_WitnessFallback ==
  /\ ipc = "done" /\ tier = "bundled" /\ mode = "local"
  /\ flast.op = "upsert" /\ flast.kind = "income"
  /\ Len(local["income"]) >= 2 /\ storage["income"].present
  /\ local["expenses"] # <<>> /\ ~storage["expenses"].present

(***************************************************************************)
(* Properties of the two tiers side by side.                               *)
(***************************************************************************)
\* The records of a list, as a set
Elements(l) == {l[i] : i \in DOMAIN l}

\* The records the live facade would list for the kind
LiveRecords(kind) == {JsonClone(map(kind, r)) : r \in tables[kind]}

\* ---------------------------------------------------------------------
\* C33: starting from an empty kind, after every sequence of upsert (with
\* an explicit id and a payload that has every field of the kind in
\* canonical form), remove and clear calls, the facade in a fallback tier
\* and the facade in the live tier hold the same set of records of the
\* kind, one record per id, and list returns that set in both.
C33_TierEquivalence ==
  /\ \A k \in KindSet :
       /\ Elements(local[k]) = LiveRecords(k)
       /\ Len(local[k]) = Cardinality(tables[k])
  /\ (flast.op = "list") =>
       /\ last.op = "list" /\ last.kind = flast.kind
       /\ result.ok /\ fresult.ok
       /\ Elements(fresult.val) = Elements(result.val)
       /\ Elements(result.val) = LiveRecords(flast.kind)
       /\ Len(fresult.val) = Len(result.val)
  /\ (flast.op = "upsert") => (result.ok /\ fresult.val = result.val)

\* C33 witness: after three calls that wrote, among them an upsert of the
\* id with a space, list of expenses gave one record in both tiers, the
\* record of that id
C33_Witness ==
  /\ nops >= 3
  /\ flast.op = "list" /\ flast.kind = "expenses"
  /\ Len(fresult.val) = 1
  /\ fresult.val[1] = CanonRec("expenses", "a b", Str(""), Str("12"), Num(0))
  /\ Elements(result.val) = Elements(fresult.val)

====
